---- MODULE Spec2Model ----
(***************************************************************************)
(* A model of the PIR library: the distributed point functions (dpf/),     *)
(* the slot conversions (slot.go), the database query engine (db.go), the  *)
(* client query constructors and the authenticated-PIR protocol (aspir/).  *)
(*                                                                         *)
(* Each component has its own specification (SpecDPF, SpecSlot, ...).  A   *)
(* specification drives the variables of its component and leaves the      *)
(* others at Idle.                                                         *)
(***************************************************************************)
EXTENDS Integers, Sequences, FiniteSets, TLC

VARIABLES
    dpfSt,      \* a DPF client/server pair: keys generated, points evaluated
    slotSt,     \* a slot and its conversion to and from an integer array
    sharedSt,   \* a secret-shared PIR query over a database
    aheSt,      \* an encrypted (AHE) PIR query over a database
    aspirSt,    \* an authenticated PIR exchange
    auditSt,    \* a list of audit token shares and the verdict of CheckAudit
    runSt,      \* a query evaluation in progress, goroutine by goroutine
    memSt,      \* the slots in memory by address, and the calls made on them
    kwSt,       \* a sqrt search tree over sorted keywords and a lookup in it
    proofSt,    \* a commitment, or a challenge and the proof token answering it
    qSt,        \* a query under construction from database metadata
    gridSt,     \* database metadata and the grid computed for it
    chalSt,     \* a key database, a query on it and the server's challenge
    rowsSt,     \* the row ranges the workers of one query take
    bstSt       \* buildBST: the data and the layers built from it

vars == <<dpfSt, slotSt, sharedSt, aheSt, aspirSt, auditSt, runSt, memSt, kwSt, proofSt, qSt, gridSt, chalSt, rowsSt, bstSt>>

Idle == [phase |-> "idle"]

(***************************************************************************)
(* Bounds of the model.                                                    *)
(***************************************************************************)
\* largest DPF input width (Dpf.NumBits) explored
MaxNumBits == 2
\* width in bytes of a PRF block / DPF seed (aes.BlockSize is 16)
BlockSize == 2
\* the client's random draws come from a family indexed 0..MaxRnd
MaxRnd == 2
\* the PRF keys come from a family indexed 0..MaxPrfKey
MaxPrfKey == 1

\* Dpf.N: the platform's integer width
DpfN == 64
\* Dpf.M: bytes per multi-party correction-word entry
DpfM == 4

\* largest number of parties of a multi-party DPF
MaxParties == 3

\* largest slot width in bytes explored by the slot conversions
MaxSlotBytes == 3

\* largest database size (number of slots) explored
MaxDBSize == 4

\* largest worker count nprocs explored
MaxProcs == 2

\* largest database size explored by the encrypted queries
MaxGridDBSize == 7

\* largest group size explored by the encrypted queries
MaxGroupSize == 2
\* longest audit token (in bytes) handed to CheckAudit
MaxAuditBytes == 2

\* the calls made on one database
MaxCalls == 3

\* the side of the largest keyword grid: data of up to MaxSigma^2 strings
MaxSigma == 2

\* the longest data a search tree is built for
MaxKeys == 5

\* the largest number of rows and of workers whose row ranges are explored
MaxHeight == 6
MaxWorkers == 4

\* the byte values slots are filled with
ByteVals == {0, 1, 127, 255}

\* the values b the point function is generated for
BVals == {0, 1, 5}

(***************************************************************************)
(* Bytes and integers.                                                     *)
(***************************************************************************)
RECURSIVE Pow2(_)
Pow2(n) == IF n <= 0 THEN 1 ELSE 2 * Pow2(n - 1)

\* bitwise exclusive or of two naturals (Go's ^ on unsigned values)
RECURSIVE XorNat(_, _)
XorNat(a, b) ==
    IF a = 0 THEN b
    ELSE IF b = 0 THEN a
    ELSE ((a + b) % 2) + 2 * XorNat(a \div 2, b \div 2)

\* a sequence given as a function on 1..n, as the tuple of its elements
AsSeq(f) == f \o <<>>

\* the element of a one-element set; {e(v) : v \in {x}} evaluates x once
The(S) == CHOOSE v \in S : TRUE

XorBytes(s, t) == AsSeq([j \in 1..Len(s) |-> XorNat(s[j], t[j])])

ZeroBytes(n) == AsSeq([j \in 1..n |-> 0])

\* Go's slice s[from:to] of a sequence (0-based, to exclusive)
Slice(s, from, to) == AsSeq([j \in 1..(to - from) |-> s[from + j]])

(***************************************************************************)
(* dpf: the fixed-key PRF, getBit and binary.Varint.                       *)
(***************************************************************************)
\* rand.Read: byte n of the random stream of draw r (a family of streams; an
\* all-zero seed, of probability 2^-128 in the program, is not drawn)
RandByte(r, n) == ((r * 73 + n * 41 + ((n * n * (r + 1)) % 17) * 5) % 255) + 1

\* the idx-th random block of stream r
RandBlock(r, idx) == AsSeq([j \in 1..BlockSize |-> RandByte(r, idx * BlockSize + j)])

RECURSIVE SeedSum(_, _)
SeedSum(seed, j) ==
    IF j > Len(seed) THEN 0 ELSE (seed[j] * (2 * j + 1) + SeedSum(seed, j + 1)) % 65536

\* the block cipher under fixed key `key` applied to the counter block seed+c:
\* byte j of the ciphertext
CipherByte(key, seed, c, j) ==
    LET v == SeedSum(seed, 1) + c
    IN  ((v + 1) * (2 * key + 3) * 37 + (j + 1) * 101 + (v \div 7) * 59 + (v \div 3)) % 256

\* prf(x, aesBlocks, numBlocks, temp, out): numBlocks blocks, block c being the
\* encryption of the seed's counter c with the input XORed back in
prf(seed, key, numBlocks) ==
    AsSeq([n \in 1..(numBlocks * BlockSize) |->
        LET c == (n - 1) \div BlockSize
            j == ((n - 1) % BlockSize) + 1
        IN  XorNat(CipherByte(key, seed, c, j), seed[j])])

\* getBit(n, pos, N): bit `pos` of n counted from the most significant of N bits.
\* n is a uint: a negative number stands for its two's complement, and the
\* bits from 2^31 up repeat the sign
getBit(n, pos, N) ==
    IF N - pos >= 31 THEN (IF n < 0 THEN 1 ELSE 0) ELSE (n \div Pow2(N - pos)) % 2

\* binary.Uvarint(buf): little-endian base-128; 0 when buf ends before a byte < 0x80
RECURSIVE Uvarint(_, _, _, _)
Uvarint(buf, i, x, scale) ==
    IF i > Len(buf) THEN 0
    ELSE IF buf[i] < 128 THEN x + buf[i] * scale
    ELSE Uvarint(buf, i + 1, x + (buf[i] % 128) * scale, scale * 128)

\* binary.Varint(buf): zig-zag decoding of Uvarint
Varint(buf) ==
    LET ux == Uvarint(buf, 1, 0, 1)
    IN  IF ux % 2 = 1 THEN -(ux \div 2) - 1 ELSE ux \div 2

Min(a, b) == IF a < b THEN a ELSE b
Max(a, b) == IF a > b THEN a ELSE b

\* sCurr[:8] on a block of BlockSize bytes
VarintPrefix(s) == Slice(s, 0, Min(8, Len(s)))

(***************************************************************************)
(* dpf/client.go: GenerateTwoServer.                                       *)
(***************************************************************************)
leftStart == 0
rightStart == BlockSize + 1

\* tCurr * cw on bytes, tCurr being 0 or 1
MulBit(t, byte) == IF t = 1 THEN byte ELSE 0

\* One level of the key-generation loop: the correction word of level i and the
\* parties' next seeds and control bits.
Gen2Level(i, numBits, a, key, sCurr0, sCurr1, tCurr0, tCurr1) ==
    LET prfOut0 == prf(sCurr0, key, 3)
        prfOut1 == prf(sCurr1, key, 3)
        t0Left  == prfOut0[BlockSize + 1] % 2
        t0Right == prfOut0[(BlockSize * 2) + 1 + 1] % 2
        t1Left  == prfOut1[BlockSize + 1] % 2
        t1Right == prfOut1[(BlockSize * 2) + 1 + 1] % 2
        aBit    == getBit(a, DpfN - numBits + i + 1, DpfN)
        keep    == IF aBit = 0 THEN leftStart ELSE rightStart
        lose    == IF aBit = 0 THEN rightStart ELSE leftStart
        cw      == AsSeq([j \in 1..(BlockSize + 2) |->
                      IF j <= BlockSize
                      THEN XorNat(prfOut0[lose + j], prfOut1[lose + j])
                      ELSE IF j = BlockSize + 1
                      THEN XorNat(XorNat(XorNat(t0Left, t1Left), aBit), 1)
                      ELSE XorNat(XorNat(t0Right, t1Right), aBit)])
        tCWKeep == IF keep = rightStart THEN cw[BlockSize + 2] ELSE cw[BlockSize + 1]
    IN  [cw |-> cw,
         s0 |-> AsSeq([j \in 1..BlockSize |->
                          XorNat(prfOut0[keep + j], MulBit(tCurr0, cw[j]))]),
         s1 |-> AsSeq([j \in 1..BlockSize |->
                          XorNat(prfOut1[keep + j], MulBit(tCurr1, cw[j]))]),
         t0 |-> XorNat(prfOut0[keep + BlockSize + 1] % 2, tCWKeep * tCurr0),
         t1 |-> XorNat(prfOut1[keep + BlockSize + 1] % 2, tCWKeep * tCurr1)]

RECURSIVE Gen2Loop(_, _, _, _, _, _, _, _, _)
Gen2Loop(i, numBits, a, key, sCurr0, sCurr1, tCurr0, tCurr1, cws) ==
    IF i >= numBits
    THEN [s0 |-> sCurr0, s1 |-> sCurr1, t0 |-> tCurr0, t1 |-> tCurr1, CW |-> cws]
    ELSE The({Gen2Loop(i + 1, numBits, a, key, lv.s0, lv.s1, lv.t0, lv.t1,
                       Append(cws, lv.cw)) :
                 lv \in {Gen2Level(i, numBits, a, key, sCurr0, sCurr1, tCurr0, tCurr1)}})

\* the final correction word without the negation under tCurr1 = 1
FinalCWOfUnsigned(b, sCurr0, sCurr1, tCurr1) ==
    b - Varint(VarintPrefix(sCurr0)) + Varint(VarintPrefix(sCurr1))

\* the final correction word: b - sFinal0 + sFinal1, negated when tCurr1 = 1
FinalCWOf(b, sCurr0, sCurr1, tCurr1) ==
    LET sFinal0 == Varint(VarintPrefix(sCurr0))
        sFinal1 == Varint(VarintPrefix(sCurr1))
        cw      == b - sFinal0 + sFinal1
    IN  IF tCurr1 = 1 THEN cw * (-1) ELSE cw

\* GenerateTwoServer(a, b) with the random draws sInit0, tInit0, sInit1 and the
\* client's PRF key: the pair of Key2P
GenerateTwoServer(numBits, key, a, b, sInit0, tInit0, sInit1) ==
    LET tInit1 == XorNat(tInit0, 1)
        fin    == Gen2Loop(0, numBits, a, key, sInit0, sInit1, tInit0, tInit1, <<>>)
        fcw    == FinalCWOf(b, fin.s0, fin.s1, fin.t1)
    IN  << [SInit |-> sInit0, TInit |-> tInit0, CW |-> fin.CW, FinalCW |-> fcw],
           [SInit |-> sInit1, TInit |-> tInit1, CW |-> fin.CW, FinalCW |-> fcw] >>

(***************************************************************************)
(* dpf/server.go: Evaluate2P.                                              *)
(***************************************************************************)
\* the index into the correction word used for byte j of the expanded seed
CWCount(j) ==
    IF j < BlockSize + 1 THEN j
    ELSE IF j < BlockSize * 2 + 1 THEN j - (BlockSize + 1)
    ELSE BlockSize + 1

\* G(s) ^ (t * sCW||tLCW||sCW||tRCW) on the first 2*BlockSize+2 bytes
Eval2Correct(fOut, tCurr, cw) ==
    AsSeq([n \in 1..Len(fOut) |->
        IF n - 1 < BlockSize * 2 + 2
        THEN XorNat(fOut[n], MulBit(tCurr, cw[CWCount(n - 1) + 1]))
        ELSE fOut[n]])

RECURSIVE Eval2Loop(_, _, _, _, _, _, _)
Eval2Loop(i, numBits, key, k, x, sCurr, tCurr) ==
    IF i >= numBits THEN [s |-> sCurr, t |-> tCurr]
    ELSE LET xBit == IF i # DpfN THEN getBit(x, DpfN - numBits + i + 1, DpfN) ELSE 0
         IN  The({The({Eval2Loop(i + 1, numBits, key, k, x, nx[1], nx[2]) :
                        nx \in {IF xBit = 0
                                THEN <<Slice(fOut, 0, BlockSize), fOut[BlockSize + 1] % 2>>
                                ELSE <<Slice(fOut, BlockSize + 1, BlockSize * 2 + 1),
                                       fOut[BlockSize * 2 + 1 + 1] % 2>>}}) :
                  fOut \in {The({Eval2Correct(out, tCurr, k.CW[i + 1]) :
                                     out \in {prf(sCurr, key, 3)}})}})

\* the share: sFinal + tCurr*FinalCW for server 0, its negation for server 1
Eval2Output(serverNum, sFinal, tCurr, finalCW) ==
    IF serverNum = 0
    THEN sFinal + tCurr * finalCW
    ELSE (-1) * (sFinal + tCurr * finalCW)

\* Evaluate2P(serverNum, k, x) on a server initialised with PRF key `key`
Evaluate2P(numBits, key, serverNum, k, x) ==
    The({Eval2Output(serverNum, Varint(VarintPrefix(fin.s)), fin.t, k.FinalCW) :
            fin \in {Eval2Loop(0, numBits, key, k, x, k.SInit, k.TInit)}})

(***************************************************************************)
(* dpf/client.go: GenerateMultiServer.                                     *)
(***************************************************************************)
\* bitwise and of two naturals (Go's &)
RECURSIVE AndNat(_, _)
AndNat(a, b) ==
    IF a = 0 \/ b = 0 THEN 0
    ELSE ((a % 2) * (b % 2)) + 2 * AndNat(a \div 2, b \div 2)

RECURSIVE CeilSqrtFrom(_, _)
CeilSqrtFrom(n, r) == IF r * r >= n THEN r ELSE CeilSqrtFrom(n, r + 1)

CeilDiv(a, b) == (a + b - 1) \div b

\* p2 := 2^(num_p-1)
P2Of(numP) == Pow2(numP - 1)

\* mu := ceil(2^(numBits/2) * 2^((num_p-1)/2)) in float64.  When both exponents
\* are half-integers the product of the two rounded square roots lies just above
\* the exact power of two, and Ceil adds one.
MuOf(numBits, numP) ==
    IF numBits % 2 = 1 /\ (numP - 1) % 2 = 1
    THEN Pow2((numBits + numP - 1) \div 2) + 1
    ELSE CeilSqrtFrom(Pow2(numBits + numP - 1), 1)

\* v := ceil(2^numBits / mu)
VOf(numBits, numP) == CeilDiv(Pow2(numBits), MuOf(numBits, numP))

\* delta := a & ((1 << (numBits / 2)) - 1)
DeltaOf(numBits, a) == AndNat(a, Pow2(numBits \div 2) - 1)

\* gamma := (a & (((1 << (numBits + 1) / 2) - 1) << numBits / 2)) >> numBits / 2
\* Go gives <<, >>, / and & one precedence and groups them from the left, so
\* this is ((a & ((((1 << (numBits+1)) / 2) - 1) << numBits) / 2) >> numBits) / 2
GammaOf(numBits, a) ==
    LET mask == ((((Pow2(numBits + 1)) \div 2) - 1) * Pow2(numBits)) \div 2
    IN  (AndNat(a, mask) \div Pow2(numBits)) \div 2

\* a uint32 as its four little-endian bytes
U32(n) == AsSeq([j \in 1..DpfM |-> (n \div Pow2(8 * (j - 1))) % 256])

ZeroU32 == ZeroBytes(DpfM)

\* binary.LittleEndian.Uint32(out[M*k : M*k+M]), kept as bytes
PrfU32(out, k) == Slice(out, DpfM * k, DpfM * k + DpfM)

NumBlocksOf(mu) == CeilDiv(DpfM * mu, BlockSize)

\* the random bits aArr[i][j][k] of parties j < num_p - 1
RandABit(r, i, j, k) == RandByte(r, 500 + (i * 16 + j) * 16 + k) % 2

\* aArr[i][j][k]: the last party's bit closes column k to parity 1 iff i = gamma
RECURSIVE ABitSum(_, _, _, _)
ABitSum(r, i, l, k) ==
    IF l < 0 THEN 0 ELSE RandABit(r, i, l, k) + ABitSum(r, i, l - 1, k)

ABit(r, numP, gamma, i, j, k) ==
    IF j # numP - 1 THEN RandABit(r, i, j, k)
    ELSE LET curr_bits == ABitSum(r, i, numP - 2, k) % 2
         IN  IF i # gamma
             THEN (IF curr_bits = 0 THEN 0 ELSE 1)
             ELSE (IF curr_bits = 0 THEN 1 ELSE 0)

\* the random seeds s[i][j]
SeedMP(r, i, j) == RandBlock(r, 40 + i * 16 + j)

\* the random correction words cw[i][j], i < p2 - 1
RandCW(r, i, j) == AsSeq([n \in 1..DpfM |-> RandByte(r, 900 + (i * 64 + j) * DpfM + n)])

\* cw_temp after the loop: the XOR of all prf(s[gamma][i]) and all random cw[i]
RECURSIVE CWTemp(_, _, _, _, _, _)
CWTemp(r, key, gamma, mu, p2, i) ==
    IF i >= p2 THEN AsSeq([k \in 1..mu |-> ZeroU32])
    ELSE LET rest == CWTemp(r, key, gamma, mu, p2, i + 1)
             out  == prf(SeedMP(r, gamma, i), key, NumBlocksOf(mu))
         IN  AsSeq([k \in 1..mu |->
                LET withPrf == XorBytes(rest[k], PrfU32(out, k - 1))
                IN  IF i = p2 - 1 THEN withPrf
                    ELSE XorBytes(withPrf, RandCW(r, i, k - 1))])

\* the correction-word table cw[p2][mu]
CWTable(r, key, numBits, numP, a, b) ==
    LET p2      == P2Of(numP)
        mu      == MuOf(numBits, numP)
        gamma   == GammaOf(numBits, a)
        delta   == DeltaOf(numBits, a)
        cw_temp == CWTemp(r, key, gamma, mu, p2, 0)
    IN  AsSeq([i \in 1..p2 |->
            AsSeq([j \in 1..mu |->
                IF i - 1 # p2 - 1 THEN RandCW(r, i - 1, j - 1)
                ELSE IF j - 1 = delta
                THEN XorBytes(U32(b), cw_temp[j])
                ELSE cw_temp[j]])])

\* sigma[i][j]: p2 blocks, block k being s[j][k] where aArr[j][i][k] # 0
SigmaOf(r, numBits, numP, a, i) ==
    LET p2    == P2Of(numP)
        v     == VOf(numBits, numP)
        gamma == GammaOf(numBits, a)
    IN  AsSeq([j \in 1..v |->
            AsSeq([k \in 1..p2 |->
                IF ABit(r, numP, gamma, j - 1, i, k - 1) # 0
                THEN SeedMP(r, j - 1, k - 1)
                ELSE ZeroBytes(BlockSize)])])

\* GenerateMultiServer(a, b, num_p) with random stream r: the num_p KeyMP
GenerateMultiServer(numBits, key, a, b, numP, r) ==
    LET cw == CWTable(r, key, numBits, numP, a, b)
    IN  AsSeq([i \in 1..numP |->
            [Sigma |-> SigmaOf(r, numBits, numP, a, i - 1),
             CW |-> cw,
             NumParties |-> numP]])

(***************************************************************************)
(* dpf/server.go: EvaluateMP.                                              *)
(***************************************************************************)
RECURSIVE EvalMPLoop(_, _, _, _, _, _)
EvalMPLoop(key, k, gamma, mu, p2, i) ==
    IF i >= p2 THEN AsSeq([j \in 1..mu |-> ZeroU32])
    ELSE LET s == k.Sigma[gamma + 1][i + 1]
         IN  The({IF s = ZeroBytes(BlockSize) THEN y
                  ELSE The({AsSeq([j \in 1..mu |->
                                XorBytes(k.CW[i + 1][j],
                                         XorBytes(y[j], PrfU32(out, j - 1)))]) :
                            out \in {prf(s, key, NumBlocksOf(mu))}}) :
                  y \in {EvalMPLoop(key, k, gamma, mu, p2, i + 1)}})

\* EvaluateMP(k, x) on a server initialised with numBits and PRF key `key`
EvaluateMP(numBits, key, k, x) ==
    LET p2    == P2Of(k.NumParties)
        mu    == MuOf(numBits, k.NumParties)
        delta == DeltaOf(numBits, x)
        gamma == GammaOf(numBits, x)
        y     == EvalMPLoop(key, k, gamma, mu, p2, 0)
    IN  y[delta + 1]

(***************************************************************************)
(* SpecDPF: a client generates two-party or multi-party keys for a point   *)
(* (a, b); the servers, initialised with the client's PRF key, evaluate    *)
(* their keys at inputs x.                                                 *)
(***************************************************************************)
Domain(numBits) == 0..(Pow2(numBits) - 1)

\* ClientInitialize(numBits): a fresh Dpf with its own PRF key
ClientInitialize(numBits, key) ==
    [phase |-> "init", numBits |-> numBits, prfKey |-> key]

DPFInit ==
    /\ \E numBits \in 1..MaxNumBits, key \in 0..MaxPrfKey :
          dpfSt = ClientInitialize(numBits, key)
    /\ slotSt = Idle /\ sharedSt = Idle /\ aheSt = Idle /\ aspirSt = Idle /\ auditSt = Idle /\ runSt = Idle /\ memSt = Idle /\ kwSt = Idle /\ proofSt = Idle /\ qSt = Idle /\ gridSt = Idle /\ chalSt = Idle /\ rowsSt = Idle /\ bstSt = Idle

DPFGenerateTwoServer ==
    /\ dpfSt.phase = "init"
    /\ \E a \in Domain(dpfSt.numBits), b \in BVals, r0, r1 \in 0..MaxRnd, t \in 0..1 :
          dpfSt' = [phase |-> "keys2P", numBits |-> dpfSt.numBits,
                    prfKey |-> dpfSt.prfKey, a |-> a, b |-> b,
                    keys |-> GenerateTwoServer(dpfSt.numBits, dpfSt.prfKey, a, b,
                                               RandBlock(r0, 0), t, RandBlock(r1, 1))]
    /\ UNCHANGED <<slotSt, sharedSt, aheSt, aspirSt, auditSt, runSt, memSt, kwSt, proofSt, qSt, gridSt, chalSt, rowsSt, bstSt>>

DPFEvaluate2P ==
    /\ dpfSt.phase = "keys2P"
    /\ \E x \in Domain(dpfSt.numBits) :
          dpfSt' = [phase |-> "eval2P", numBits |-> dpfSt.numBits,
                    prfKey |-> dpfSt.prfKey, a |-> dpfSt.a, b |-> dpfSt.b,
                    keys |-> dpfSt.keys, x |-> x,
                    ans |-> AsSeq([i \in 1..2 |->
                               Evaluate2P(dpfSt.numBits, dpfSt.prfKey, i - 1,
                                          dpfSt.keys[i], x)])]
    /\ UNCHANGED <<slotSt, sharedSt, aheSt, aspirSt, auditSt, runSt, memSt, kwSt, proofSt, qSt, gridSt, chalSt, rowsSt, bstSt>>

DPFGenerateMultiServer ==
    /\ dpfSt.phase = "init"
    /\ \E a \in Domain(dpfSt.numBits), b \in BVals, r \in 0..MaxRnd,
          numP \in 3..MaxParties :
          dpfSt' = [phase |-> "keysMP", numBits |-> dpfSt.numBits,
                    prfKey |-> dpfSt.prfKey, a |-> a, b |-> b,
                    keys |-> GenerateMultiServer(dpfSt.numBits, dpfSt.prfKey, a, b,
                                                 numP, r)]
    /\ UNCHANGED <<slotSt, sharedSt, aheSt, aspirSt, auditSt, runSt, memSt, kwSt, proofSt, qSt, gridSt, chalSt, rowsSt, bstSt>>

DPFEvaluateMP ==
    /\ dpfSt.phase = "keysMP"
    /\ \E x \in Domain(dpfSt.numBits) :
          dpfSt' = [phase |-> "evalMP", numBits |-> dpfSt.numBits,
                    prfKey |-> dpfSt.prfKey, a |-> dpfSt.a, b |-> dpfSt.b,
                    keys |-> dpfSt.keys, x |-> x,
                    ans |-> AsSeq([i \in 1..Len(dpfSt.keys) |->
                               EvaluateMP(dpfSt.numBits, dpfSt.prfKey,
                                          dpfSt.keys[i], x)])]
    /\ UNCHANGED <<slotSt, sharedSt, aheSt, aspirSt, auditSt, runSt, memSt, kwSt, proofSt, qSt, gridSt, chalSt, rowsSt, bstSt>>

DPFNext ==
    \/ DPFGenerateTwoServer
    \/ DPFEvaluate2P
    \/ DPFGenerateMultiServer
    \/ DPFEvaluateMP

SpecDPF == DPFInit /\ [][DPFNext]_vars

\* the XOR of a sequence of equal-length byte strings
RECURSIVE XorAll(_, _)
XorAll(seq, n) ==
    IF n = 0 THEN ZeroBytes(Len(seq[1]))
    ELSE XorBytes(XorAll(seq, n - 1), seq[n])

\* C1: two-party DPF correctness.  Whenever both servers have evaluated their
\* keys at an input x of the domain, the sum of the two shares is b when x = a
\* and 0 otherwise.
C1_TwoPartyCorrect ==
    dpfSt.phase = "eval2P" =>
        dpfSt.ans[1] + dpfSt.ans[2] = (IF dpfSt.x = dpfSt.a THEN dpfSt.b ELSE 0)

\* C1 witness: with at least two levels, the point itself was evaluated for a
\* non-zero b, and the shares individually are not the answer.
C1_Witness ==
    /\ dpfSt.phase = "eval2P"
    /\ dpfSt.numBits >= 2
    /\ dpfSt.x = dpfSt.a
    /\ dpfSt.b = 5
    /\ dpfSt.ans[1] # 5
    /\ dpfSt.ans[2] # 0

\* C2: multi-party DPF correctness.  Whenever all parties have evaluated their
\* keys at an input x of the domain, the XOR of the shares is b when x = a and
\* 0 otherwise.
C2_MultiPartyCorrect ==
    dpfSt.phase = "evalMP" =>
        XorAll(dpfSt.ans, Len(dpfSt.ans))
            = (IF dpfSt.x = dpfSt.a THEN U32(dpfSt.b) ELSE ZeroU32)

(***************************************************************************)
(* slot.go.  A gmp.Int is represented by its minimal big-endian bytes (the *)
(* empty string is 0), which is what Int.Bytes() returns.                  *)
(***************************************************************************)
RECURSIVE StripLeadingZeros(_)
StripLeadingZeros(b) ==
    IF Len(b) = 0 THEN b
    ELSE IF b[1] = 0 THEN StripLeadingZeros(Tail(b))
    ELSE b

\* new(gmp.Int).SetBytes(b): the integer whose big-endian digits are b
SetBytes(b) == StripLeadingZeros(b)

\* gmp.NewInt(0)
IntZero == <<>>

\* XorSlots(a, b): a with the bytes of b XORed in
XorSlots(a, b) ==
    The({AsSeq([j \in 1..Len(x) |-> IF j <= Len(y) THEN XorNat(x[j], y[j]) ELSE x[j]]) :
            x \in {a}, y \in {b}})

\* numBytesPerChunck := max(1, ceil(len(slot.Data) / numChuncks))
NumBytesPerChunck(len, numChuncks) == Max(1, CeilDiv(len, numChuncks))

\* chunk i (0-based) of the slot as an integer; 0 where the slot has no bytes left
ChunkInt(data, i, numBytesPerChunck) ==
    LET start == i * numBytesPerChunck
        end   == Min(Len(data), start + numBytesPerChunck)
    IN  IF start >= end THEN IntZero ELSE SetBytes(Slice(data, start, end))

\* slot.ToGmpIntArray(numChuncks): (ints, numBytesPerChunck, err)
ToGmpIntArray(data, numChuncks) ==
    IF numChuncks <= 0
    THEN [err |-> TRUE, ints |-> <<>>, numBytesPerInt |-> -1]
    ELSE LET nb == NumBytesPerChunck(Len(data), numChuncks)
         IN  [err |-> FALSE,
              ints |-> AsSeq([i \in 1..numChuncks |-> ChunkInt(data, i - 1, nb)]),
              numBytesPerInt |-> nb]

\* the bytes of every integer written where the previous one ended
NextByteForPacked(nextByte, len, numBytes, numBytesPerInt) == nextByte

\* where the bytes of an integer of len significant bytes start, given the
\* position reached so far
NextByteFor(nextByte, len, numBytes, numBytesPerInt) ==
    LET shiftZeros == nextByte + numBytesPerInt <= numBytes
        shifted    == IF shiftZeros /\ len <= numBytesPerInt
                      THEN nextByte + (numBytesPerInt - len)
                      ELSE nextByte
    IN  IF ~shiftZeros THEN shifted + (numBytes - shifted - len) ELSE shifted

RECURSIVE FromIntsLoop(_, _, _, _, _, _)
FromIntsLoop(arr, i, numBytes, numBytesPerInt, bytes, nextByte) ==
    IF i > Len(arr) THEN [panic |-> FALSE, Data |-> bytes]
    ELSE LET v   == arr[i]
             at  == NextByteFor(nextByte, Len(v), numBytes, numBytesPerInt)
         IN  IF Len(v) > 0 /\ (at < 0 \/ at + Len(v) > numBytes)
             THEN [panic |-> TRUE, Data |-> bytes]
             ELSE FromIntsLoop(arr, i + 1, numBytes, numBytesPerInt,
                      AsSeq([j \in 1..numBytes |->
                                IF j > at /\ j <= at + Len(v) THEN v[j - at]
                                ELSE bytes[j]]),
                      at + Len(v))

\* NewSlotFromGmpIntArray(arr, numBytes, numBytesPerInt)
NewSlotFromGmpIntArray(arr, numBytes, numBytesPerInt) ==
    FromIntsLoop(arr, 1, numBytes, numBytesPerInt, ZeroBytes(numBytes), 0)

(***************************************************************************)
(* SpecSlot: a slot is split into integers and rebuilt from them.          *)
(***************************************************************************)
\* all byte strings of length n over ByteVals
ByteStrings(n) == [1..n -> ByteVals]

SlotInit ==
    /\ \E n \in 0..MaxSlotBytes : \E data \in ByteStrings(n) :
          slotSt = [phase |-> "slot", Data |-> AsSeq(data)]
    /\ dpfSt = Idle /\ sharedSt = Idle /\ aheSt = Idle /\ aspirSt = Idle /\ auditSt = Idle /\ runSt = Idle /\ memSt = Idle /\ kwSt = Idle /\ proofSt = Idle /\ qSt = Idle /\ gridSt = Idle /\ chalSt = Idle /\ rowsSt = Idle /\ bstSt = Idle

SlotToGmpIntArray ==
    /\ slotSt.phase = "slot"
    /\ \E k \in 0..(2 * Len(slotSt.Data) + 1) :
          LET res == ToGmpIntArray(slotSt.Data, k)
          IN  slotSt' = [phase |-> IF res.err THEN "error" ELSE "ints",
                         Data |-> slotSt.Data, numChuncks |-> k,
                         ints |-> res.ints, numBytesPerInt |-> res.numBytesPerInt]
    /\ UNCHANGED <<dpfSt, sharedSt, aheSt, aspirSt, auditSt, runSt, memSt, kwSt, proofSt, qSt, gridSt, chalSt, rowsSt, bstSt>>

SlotFromGmpIntArray ==
    /\ slotSt.phase = "ints"
    /\ slotSt' = [phase |-> "rebuilt", Data |-> slotSt.Data,
                  numChuncks |-> slotSt.numChuncks, ints |-> slotSt.ints,
                  numBytesPerInt |-> slotSt.numBytesPerInt,
                  recovered |-> NewSlotFromGmpIntArray(slotSt.ints, Len(slotSt.Data),
                                                       slotSt.numBytesPerInt)]
    /\ UNCHANGED <<dpfSt, sharedSt, aheSt, aspirSt, auditSt, runSt, memSt, kwSt, proofSt, qSt, gridSt, chalSt, rowsSt, bstSt>>

SlotNext ==
    \/ SlotToGmpIntArray
    \/ SlotFromGmpIntArray

SpecSlot == SlotInit /\ [][SlotNext]_vars

\* C7: slot round trip.  A slot rebuilt from the integers and the chunk width
\* that ToGmpIntArray returned for any chunk count k >= 1, with the original
\* length, has exactly the original bytes (and the rebuild does not panic).
C7_SlotRoundTrip ==
    slotSt.phase = "rebuilt" =>
        /\ ~slotSt.recovered.panic
        /\ slotSt.recovered.Data = slotSt.Data

\* C7 witness: a slot with a leading zero byte and a zero at the start of a
\* later chunk, split into more than one chunk with a short final chunk, was
\* rebuilt.
C7_Witness ==
    /\ slotSt.phase = "rebuilt"
    /\ Len(slotSt.Data) = 3
    /\ slotSt.Data[1] = 0
    /\ slotSt.Data[3] = 0
    /\ slotSt.numChuncks = 2
    /\ slotSt.numBytesPerInt = 2
    /\ slotSt.recovered.Data = <<0, 255, 0>>

(***************************************************************************)
(* Databases (testing.go) and secret-shared queries (db.go, query.go).     *)
(***************************************************************************)
\* the slot widths databases are built with
DBSlotBytes == {2}

\* rand.Read for database contents: byte n of database stream seed; zero
\* bytes and repeated slots occur
DbByte(seed, n) == ((seed + 1) * (n + 2) * (n + seed) + (n \div 3)) % 4

\* GenerateRandomDB(size, numBytes)
GenerateRandomDB(seed, size, numBytes) ==
    [DBSize |-> size, SlotBytes |-> numBytes,
     Slots |-> AsSeq([i \in 1..size |->
                  AsSeq([j \in 1..numBytes |-> DbByte(seed, (i - 1) * numBytes + j)])])]

\* int(math.Ceil(float64(DBSize / groupSize))): the division is Go's integer
\* division, so Ceil has nothing left to round
DimHeightOf(DBSize, groupSize) == DBSize \div groupSize

\* uint(math.Log2(float64(dimHeight)) + 1) for dimHeight >= 1
RECURSIVE NumBitsOf(_)
NumBitsOf(dimHeight) == IF dimHeight <= 1 THEN 1 ELSE 1 + NumBitsOf(dimHeight \div 2)

\* GenerateTwoServer with its draws taken from random stream r
GenerateTwoServerRand(numBits, key, a, b, r) ==
    GenerateTwoServer(numBits, key, a, b, RandBlock(r, 0),
                      RandByte(r, BlockSize + 1) % 2, RandBlock(r, 1))

\* the PRF key ClientInitialize draws from random stream r
PrfKeyOf(r) == r % (MaxPrfKey + 1)

\* newQueryShares(key, groupSize, numShares, true) on a client whose random
\* stream is r
newQueryShares(dbmd, key, groupSize, numShares, r) ==
    LET dimHeight == DimHeightOf(dbmd.DBSize, groupSize)
        numBits   == NumBitsOf(dimHeight)
        prfKey    == ClientInitialize(numBits, PrfKeyOf(r)).prfKey
    IN  IF dimHeight = 0 \/ key >= dimHeight
        THEN [panic |-> TRUE, shares |-> <<>>]
        ELSE LET keys == IF numShares = 2
                         THEN GenerateTwoServerRand(numBits, prfKey, key, 1, r)
                         ELSE GenerateMultiServer(numBits, prfKey, key, 1, numShares, r)
             IN  [panic |-> FALSE,
                  shares |-> AsSeq([i \in 1..numShares |->
                      [ShareNumber |-> i - 1, PrfKeys |-> prfKey,
                       IsKeywordBased |-> FALSE, GroupSize |-> groupSize,
                       IsTwoParty |-> numShares = 2, Key |-> keys[i]]])]

\* the width of keyword queries: numBits = uint(32)
KeywordBits == 32

\* newQueryShares(keyword, groupSize, numShares, false): the DPF is over 32
\* bits, the test against dimHeight is the one of index queries
NewKeywordQueryShares(dbmd, keyword, groupSize, numShares, r) ==
    LET dimHeight == DimHeightOf(dbmd.DBSize, groupSize)
        prfKey    == ClientInitialize(KeywordBits, PrfKeyOf(r)).prfKey
    IN  IF dimHeight = 0 \/ keyword >= dimHeight
        THEN [panic |-> TRUE, shares |-> <<>>]
        ELSE The({[panic |-> FALSE,
                   shares |-> AsSeq([i \in 1..numShares |->
                       [ShareNumber |-> i - 1, PrfKeys |-> prfKey,
                        IsKeywordBased |-> TRUE, GroupSize |-> groupSize,
                        IsTwoParty |-> numShares = 2, Key |-> keys[i]]])] :
                keys \in {IF numShares = 2
                          THEN GenerateTwoServerRand(KeywordBits, prfKey, keyword, 1, r)
                          ELSE GenerateMultiServer(KeywordBits, prfKey, keyword, 1,
                                                   numShares, r)}})

\* bits[i] of PrivateSecretSharedQuery: res % 2 == 0 for the DPF output res
QueryBit(query, numBits, i) ==
    IF query.IsTwoParty
    THEN Evaluate2P(numBits, query.PrfKeys, query.ShareNumber, query.Key, i) % 2 = 0
    ELSE EvaluateMP(numBits, query.PrfKeys, query.Key, i)[1] % 2 = 0

\* results[col] after rows row.. have been folded in
RECURSIVE XorRows(_, _, _, _, _, _)
XorRows(db, bits, dimWidth, dimHeight, col, row) ==
    IF row >= dimHeight THEN ZeroBytes(db.SlotBytes)
    ELSE LET rest      == XorRows(db, bits, dimWidth, dimHeight, col, row + 1)
             slotIndex == row * dimWidth + col
         IN  IF bits[row + 1] /\ slotIndex < Len(db.Slots)
             THEN XorSlots(rest, db.Slots[slotIndex + 1])
             ELSE rest

\* db.PrivateSecretSharedQuery(query, nprocs)
PrivateSecretSharedQuery(db, query, nprocs) ==
    LET dimWidth  == query.GroupSize
        dimHeight == DimHeightOf(db.DBSize, query.GroupSize)
        numBits   == NumBitsOf(dimHeight)
    IN  The({[SlotBytes |-> db.SlotBytes,
              Shares |-> AsSeq([col \in 1..dimWidth |->
                             XorRows(db, bits, dimWidth, dimHeight, col - 1, 0)])] :
                bits \in {AsSeq([i \in 1..dimHeight |->
                                   QueryBit(query, numBits, i - 1)])}})

\* Recover(resShares): slot j is the XOR of the servers' shares of slot j
RECURSIVE RecoverSlot(_, _, _)
RecoverSlot(resShares, j, i) ==
    IF i > Len(resShares) THEN ZeroBytes(resShares[1].SlotBytes)
    ELSE XorSlots(RecoverSlot(resShares, j, i + 1), resShares[i].Shares[j])

\* the slots of the first result share alone
RecoverFirstShare(resShares) == resShares[1].Shares

\* Recover(resShares)
Recover(resShares) ==
    AsSeq([j \in 1..Len(resShares[1].Shares) |-> RecoverSlot(resShares, j, 1)])

(***************************************************************************)
(* aspir.go: the secret-shared variant of ASPIR.                           *)
(***************************************************************************)
\* pir.NewEmptySlot(numBytes)
NewEmptySlot(numBytes) == ZeroBytes(numBytes)

\* pir.NewRandomSlot(numBytes), the i-th drawn from random stream r
NewRandomSlot(r, i, numBytes) ==
    AsSeq([j \in 1..numBytes |-> RandByte(r, 300 + i * numBytes + j)])

\* the accumulator after shares i.. have been XORed in
RECURSIVE TokenAccumulator(_, _, _, _)
TokenAccumulator(r, numBytes, numShares, i) ==
    IF i >= numShares THEN NewEmptySlot(numBytes)
    ELSE XorSlots(TokenAccumulator(r, numBytes, numShares, i + 1),
                  NewRandomSlot(r, i, numBytes))

\* AuthTokenSharesForKey(authKey, numShares)
AuthTokenSharesForKey(authKey, numShares, r) ==
    LET numBytes == Len(authKey)
    IN  AsSeq([i \in 1..numShares |->
            IF i = 1
            THEN XorSlots(TokenAccumulator(r, numBytes, numShares, 1), authKey)
            ELSE NewRandomSlot(r, i - 1, numBytes)])

\* the audit share with the server's token share left out
GenerateAuditWithoutToken(keyDB, query, authToken, nprocs) ==
    The({[err |-> Len(res.Shares) # 1, T |-> res.Shares[1]] :
            res \in {PrivateSecretSharedQuery(keyDB, query, nprocs)}})

\* GenerateAuditForSharedQuery(keyDB, query, authToken, nprocs)
GenerateAuditForSharedQuery(keyDB, query, authToken, nprocs) ==
    The({IF Len(res.Shares) # 1
         THEN [err |-> TRUE, T |-> <<>>]
         ELSE [err |-> FALSE, T |-> XorSlots(res.Shares[1], authToken)] :
            res \in {PrivateSecretSharedQuery(keyDB, query, nprocs)}})

\* the XOR of the audit tokens with the last one left out
RECURSIVE XorAuditsButLast(_, _)
XorAuditsButLast(auditTokens, i) ==
    IF i >= Len(auditTokens) THEN NewEmptySlot(Len(auditTokens[1].T))
    ELSE XorSlots(XorAuditsButLast(auditTokens, i + 1), auditTokens[i].T)

\* res after the loop of CheckAudit has XORed in the tokens i..
RECURSIVE XorAudits(_, _)
XorAudits(auditTokens, i) ==
    IF i > Len(auditTokens) THEN NewEmptySlot(Len(auditTokens[1].T))
    ELSE XorSlots(XorAudits(auditTokens, i + 1), auditTokens[i].T)

\* CheckAudit(auditTokens...): the XOR of the tokens, as one integer, is 0
CheckAudit(auditTokens) ==
    ToGmpIntArray(XorAudits(auditTokens, 1), 1).ints[1] = IntZero

(***************************************************************************)
(* SpecShared: a client builds index-query shares for a database; every    *)
(* server answers its share (PIR) or audits it against its auth token      *)
(* share (ASPIR); the client recovers, the servers check the audit.        *)
(***************************************************************************)
\* the worker counts a share is processed with; concurrent EvaluateMP calls
\* share the Dpf's Temp and Out buffers, so multi-party shares are explored
\* single-threaded
ProcsFor(query) == IF query.IsTwoParty THEN 1..MaxProcs ELSE {1}

\* the key tags a client presents: every key of the database and one more
TagsFor(db) ==
    {db.Slots[i] : i \in 1..db.DBSize} \cup {AsSeq([j \in 1..db.SlotBytes |-> 9])}

SharedInit ==
    /\ \E seed \in 0..MaxRnd, size \in 1..MaxDBSize, numBytes \in DBSlotBytes :
          sharedSt = [phase |-> "db", db |-> GenerateRandomDB(seed, size, numBytes),
                      rnd |-> 0, index |-> 0, groupSize |-> 0,
                      numShares |-> 0, shares |-> <<>>, results |-> <<>>,
                      nprocs |-> 0, recovered |-> <<>>, tag |-> <<>>,
                      tokens |-> <<>>, audits |-> <<>>, accepted |-> FALSE]
    /\ dpfSt = Idle /\ slotSt = Idle /\ aheSt = Idle /\ aspirSt = Idle /\ auditSt = Idle /\ runSt = Idle /\ memSt = Idle /\ kwSt = Idle /\ proofSt = Idle /\ qSt = Idle /\ gridSt = Idle /\ chalSt = Idle /\ rowsSt = Idle /\ bstSt = Idle

SharedNewIndexQueryShares ==
    /\ sharedSt.phase = "db"
    /\ \E groupSize \in 1..(sharedSt.db.DBSize + 1), numShares \in 2..MaxParties,
          r \in 0..MaxRnd :
          \E index \in 0..DimHeightOf(sharedSt.db.DBSize, groupSize) :
             \E q \in {newQueryShares(sharedSt.db, index, groupSize, numShares, r)} :
                 sharedSt' = [sharedSt EXCEPT
                                !.phase = IF q.panic THEN "panicked" ELSE "shares",
                                !.rnd = r, !.index = index, !.groupSize = groupSize,
                                !.numShares = numShares, !.shares = q.shares]
    /\ UNCHANGED <<dpfSt, slotSt, aheSt, aspirSt, auditSt, runSt, memSt, kwSt, proofSt, qSt, gridSt, chalSt, rowsSt, bstSt>>

\* the next server answers its share
SharedPrivateSecretSharedQuery ==
    /\ sharedSt.phase = "shares"
    /\ Len(sharedSt.results) < sharedSt.numShares
    /\ LET query == sharedSt.shares[Len(sharedSt.results) + 1]
       IN  \E nprocs \in ProcsFor(query) :
              sharedSt' = [sharedSt EXCEPT
                  !.nprocs = nprocs,
                  !.results = Append(@, PrivateSecretSharedQuery(sharedSt.db, query,
                                                                  nprocs))]
    /\ UNCHANGED <<dpfSt, slotSt, aheSt, aspirSt, auditSt, runSt, memSt, kwSt, proofSt, qSt, gridSt, chalSt, rowsSt, bstSt>>

SharedRecover ==
    /\ sharedSt.phase = "shares"
    /\ Len(sharedSt.results) = sharedSt.numShares
    /\ sharedSt' = [sharedSt EXCEPT !.phase = "recovered",
                                    !.recovered = Recover(sharedSt.results)]
    /\ UNCHANGED <<dpfSt, slotSt, aheSt, aspirSt, auditSt, runSt, memSt, kwSt, proofSt, qSt, gridSt, chalSt, rowsSt, bstSt>>

SharedAuthTokenSharesForKey ==
    /\ sharedSt.phase = "shares"
    /\ sharedSt.results = <<>>
    /\ \E tag \in TagsFor(sharedSt.db) :
          sharedSt' = [sharedSt EXCEPT
              !.phase = "tokens", !.tag = tag,
              !.tokens = AuthTokenSharesForKey(tag, sharedSt.numShares,
                                               sharedSt.rnd)]
    /\ UNCHANGED <<dpfSt, slotSt, aheSt, aspirSt, auditSt, runSt, memSt, kwSt, proofSt, qSt, gridSt, chalSt, rowsSt, bstSt>>

\* the next server audits its share against its token share
SharedGenerateAudit ==
    /\ sharedSt.phase = "tokens"
    /\ Len(sharedSt.audits) < sharedSt.numShares
    /\ LET n     == Len(sharedSt.audits) + 1
           query == sharedSt.shares[n]
       IN  \E nprocs \in ProcsFor(query) :
              \E audit \in {GenerateAuditForSharedQuery(sharedSt.db, query,
                                                          sharedSt.tokens[n], nprocs)} :
                  sharedSt' = [sharedSt EXCEPT
                      !.phase = IF audit.err THEN "auditError" ELSE "tokens",
                      !.nprocs = nprocs,
                      !.audits = Append(@, audit)]
    /\ UNCHANGED <<dpfSt, slotSt, aheSt, aspirSt, auditSt, runSt, memSt, kwSt, proofSt, qSt, gridSt, chalSt, rowsSt, bstSt>>

SharedCheckAudit ==
    /\ sharedSt.phase = "tokens"
    /\ Len(sharedSt.audits) = sharedSt.numShares
    /\ sharedSt' = [sharedSt EXCEPT !.phase = "audited",
                                    !.accepted = CheckAudit(sharedSt.audits)]
    /\ UNCHANGED <<dpfSt, slotSt, aheSt, aspirSt, auditSt, runSt, memSt, kwSt, proofSt, qSt, gridSt, chalSt, rowsSt, bstSt>>

SharedNext ==
    \/ SharedNewIndexQueryShares
    \/ SharedPrivateSecretSharedQuery
    \/ SharedRecover
    \/ SharedAuthTokenSharesForKey
    \/ SharedGenerateAudit
    \/ SharedCheckAudit

SpecShared == SharedInit /\ [][SharedNext]_vars

\* the slots of group index of width groupSize, truncated to DBSize
SelectedGroup(db, index, groupSize) ==
    AsSeq([j \in 1..groupSize |->
        IF index * groupSize + j <= db.DBSize
        THEN db.Slots[index * groupSize + j]
        ELSE ZeroBytes(db.SlotBytes)])

\* C3: two-server secret-shared PIR.  Recover over the two servers' answers to
\* the shares of NewIndexQueryShares(i, g, 2) has g slots, slot j being
\* db.Slots[i*g + j] wherever i*g + j < DBSize.
C3_TwoServerSharedPIR ==
    (sharedSt.phase = "recovered" /\ sharedSt.numShares = 2) =>
        /\ Len(sharedSt.recovered) = sharedSt.groupSize
        /\ \A j \in 0..(sharedSt.groupSize - 1) :
              sharedSt.index * sharedSt.groupSize + j < sharedSt.db.DBSize =>
                  sharedSt.recovered[j + 1]
                      = sharedSt.db.Slots[sharedSt.index * sharedSt.groupSize + j + 1]

\* C3 witness: a two-server query for a group of two slots that is not the
\* first group, answered by a server with two workers, recovered non-zero slots.
C3_Witness ==
    /\ sharedSt.phase = "recovered"
    /\ sharedSt.numShares = 2
    /\ sharedSt.groupSize = 2
    /\ sharedSt.index = 1
    /\ sharedSt.nprocs = 2
    /\ sharedSt.recovered = SelectedGroup(sharedSt.db, 1, 2)
    /\ sharedSt.recovered[1] # ZeroBytes(sharedSt.db.SlotBytes)
    /\ sharedSt.results[1].Shares # sharedSt.recovered

\* C4: secret-shared PIR for any number of servers.  Recover over the answers
\* of all numShares >= 2 shares is exactly the selected group, truncated to
\* DBSize.
C4_AnyServersSharedPIR ==
    sharedSt.phase = "recovered" =>
        sharedSt.recovered
            = SelectedGroup(sharedSt.db, sharedSt.index, sharedSt.groupSize)

\* C10: XOR-shared ASPIR end to end.  With two servers, group size 1 and the
\* token shares of AuthTokenSharesForKey(tag, 2), CheckAudit over the two
\* audit shares is true if and only if tag = keyDB.Slots[i].
C10_SharedAuditIff ==
    (sharedSt.phase = "audited" /\ sharedSt.numShares = 2 /\ sharedSt.groupSize = 1) =>
        (sharedSt.accepted <=> sharedSt.tag = sharedSt.db.Slots[sharedSt.index + 1])

\* C10 witness: an audit was rejected although the tag is the key of another
\* record of the database.
C10_Witness ==
    /\ sharedSt.phase = "audited"
    /\ sharedSt.numShares = 2
    /\ sharedSt.groupSize = 1
    /\ ~sharedSt.accepted
    /\ sharedSt.index > 0
    /\ sharedSt.tag = sharedSt.db.Slots[1]
    /\ sharedSt.tag # sharedSt.db.Slots[sharedSt.index + 1]

(***************************************************************************)
(* The additively homomorphic scheme (paillier), as an ideal scheme.  A    *)
(* ciphertext value C >= 1 encodes a plaintext and the randomness it was   *)
(* made with, C = 1 being the encryption of zero with no randomness; the   *)
(* value 0 is the ring element that is no ciphertext.  Level-two           *)
(* plaintexts range over every level-one ciphertext value and 0.  gmp.Int  *)
(* values are their significant bytes, as in slot.go.                      *)
(***************************************************************************)
\* the number a gmp.Int stands for
RECURSIVE IntValueFrom(_, _, _)
IntValueFrom(v, i, acc) ==
    IF i > Len(v) THEN acc ELSE IntValueFrom(v, i + 1, acc * 256 + v[i])

IntValue(v) == IntValueFrom(v, 1, 0)

\* the gmp.Int of a number n >= 0
RECURSIVE IntOf(_)
IntOf(n) == IF n = 0 THEN IntZero ELSE Append(IntOf(n \div 256), n % 256)

\* paillier.OneBigInt
OneBigInt == IntOf(1)

\* paillier.KeyGen: the public modulus (four bytes long)
Pk == [N |-> IntOf(Pow2(24) + 1)]

\* the size of the randomness component of a ciphertext value
RndMod == MaxRnd + 1

\* the plaintext space of a level
PlainMod(pk, level) ==
    IF level = 1 THEN IntValue(pk.N) ELSE IntValue(pk.N) * RndMod + 1

\* pk.EncryptWithRAtLevel(m, r, level): the ciphertext of m made with randomness r
Ct(pk, m, r, level) ==
    [C |-> IntOf(1 + (m % PlainMod(pk, level)) * RndMod + (r % RndMod)),
     Level |-> level]

\* the plaintext and the randomness of a ciphertext value C >= 1
PlainOf(ct) == (IntValue(ct.C) - 1) \div RndMod

RndOf(ct) == (IntValue(ct.C) - 1) % RndMod

\* pk.EncryptZeroAtLevel / pk.EncryptOneAtLevel with the n-th draw of stream r
EncryptBit(pk, bit, level, r, n) == Ct(pk, bit, RandByte(r, 200 + n), level)

\* pk.Add(a, b)
Add(pk, a, b) ==
    The({Ct(pk, PlainOf(x) + PlainOf(y), RndOf(x) + RndOf(y), x.Level) :
            x \in {a}, y \in {b}})

\* pk.ConstMult(ct, val)
ConstMult(pk, ct, val) ==
    The({Ct(pk, PlainOf(x) * k, RndOf(x) * (k % RndMod), x.Level) :
            x \in {ct}, k \in {IntValue(val)}})

\* sk.Decrypt(ct)
Decrypt(pk, ct) == IntOf(PlainOf(ct) % PlainMod(pk, ct.Level))

(***************************************************************************)
(* db.go, query.go: grids and singly encrypted queries.                    *)
(***************************************************************************)
\* nullCiphertext(level)
nullCiphertext(level) == [C |-> OneBigInt, Level |-> level]

\* dbmd.IndexToCoordinates(index, width, height)
IndexToCoordinates(index, width, height) == <<index \div width, index % width>>

\* the next multiple of m from w
NextMultiple(w, m) == IF w % m # 0 THEN w + (m - (w % m)) ELSE w

\* dbmd.GetDimentionsForDatabaseWidthMultiple(height, groupSize, widthMultiple):
\* <<dimWidth, dimHeight>>; the two math.Ceil are applied to integer quotients
GetDimentionsForDatabaseWidthMultiple(dbmd, height, groupSize, widthMultiple) ==
    LET dimWidth1 == NextMultiple(dbmd.DBSize \div height, groupSize)
        dimWidth  == IF widthMultiple > 0 THEN NextMultiple(dimWidth1, widthMultiple)
                     ELSE dimWidth1
    IN  <<dimWidth, dbmd.DBSize \div dimWidth>>

\* dbmd.GetDimentionsForDatabase(height, groupSize)
GetDimentionsForDatabase(dbmd, height, groupSize) ==
    GetDimentionsForDatabaseWidthMultiple(dbmd, height, groupSize, 1)

\* int(math.Ceil(math.Sqrt(float64(DBSize))))
SqrtHeight(dbmd) == CeilSqrtFrom(dbmd.DBSize, 0)

\* dbmd.NewEncryptedQueryWithDimentions(pk, width, height, groupSize, index)
NewEncryptedQueryWithDimentions(pk, width, height, groupSize, index, r) ==
    [Pk |-> pk,
     EBits |-> AsSeq([i \in 1..height |->
                   EncryptBit(pk, IF i - 1 = index THEN 1 ELSE 0, 1, r, i)]),
     GroupSize |-> groupSize, DBWidth |-> width, DBHeight |-> height]

\* dbmd.NewEncryptedQuery(pk, groupSize, index)
NewEncryptedQuery(dbmd, pk, groupSize, index, r) ==
    LET dims == GetDimentionsForDatabase(dbmd, SqrtHeight(dbmd), groupSize)
    IN  NewEncryptedQueryWithDimentions(pk, dims[1], dims[2], groupSize, index, r)
\* float64(len(query.Pk.N.Bytes()) - 2)
MsgSpaceBytes(pk) == Len(pk.N) - 2

\* numCiphertextsPerSlot
NumCiphertextsPerSlot(db, pk) == CeilDiv(db.SlotBytes, MsgSpaceBytes(pk))

\* the rows of worker i when the last worker stops at its own share of rows
WorkerRowsEven(i, nprocs, dimHeight) ==
    LET numRowsPerProc == dimHeight \div nprocs
    IN  <<i * numRowsPerProc, i * numRowsPerProc + numRowsPerProc>>

\* the rows <<start, end>> of worker i of nprocs
WorkerRows(i, nprocs, dimHeight) ==
    LET numRowsPerProc == dimHeight \div nprocs
    IN  <<i * numRowsPerProc,
          IF i + 1 = nprocs THEN dimHeight ELSE i * numRowsPerProc + numRowsPerProc>>

\* slotRes[i][col].Cts[j] of a worker started at row start, after rows below `row`
RECURSIVE WorkerCt(_, _, _, _, _, _, _)
WorkerCt(db, query, numCts, col, j, start, row) ==
    IF row <= start THEN nullCiphertext(1)
    ELSE LET slotIndex == (row - 1) * query.DBWidth + col
         IN  IF slotIndex >= Len(db.Slots)
             THEN WorkerCt(db, query, numCts, col, j, start, row - 1)
             ELSE Add(query.Pk,
                      WorkerCt(db, query, numCts, col, j, start, row - 1),
                      ConstMult(query.Pk, query.EBits[row],
                                ToGmpIntArray(db.Slots[slotIndex + 1], numCts).ints[j + 1]))

\* slots[col].Cts[j] after addEncryptedSlots has folded in workers 1..i
RECURSIVE CombinedCt(_, _, _, _, _, _, _)
CombinedCt(db, query, numCts, nprocs, col, j, i) ==
    LET rows == WorkerRows(i, nprocs, query.DBHeight)
        own  == WorkerCt(db, query, numCts, col, j, rows[1], rows[2])
    IN  IF i = 0 THEN own
        ELSE Add(query.Pk, CombinedCt(db, query, numCts, nprocs, col, j, i - 1), own)

\* numBytesPerCiphertext: set by the first slot a worker converts
NumBytesPerCiphertext(db, query, numCts) ==
    IF \E row \in 0..(query.DBHeight - 1), col \in 0..(query.DBWidth - 1) :
           row * query.DBWidth + col < Len(db.Slots)
    THEN ToGmpIntArray(db.Slots[1], numCts).numBytesPerInt
    ELSE 0

\* db.PrivateEncryptedQuery(query, nprocs)
PrivateEncryptedQuery(db, query, nprocs) ==
    LET numCts == NumCiphertextsPerSlot(db, query.Pk)
    IN  [Pk |-> query.Pk,
         Slots |-> AsSeq([col \in 1..query.DBWidth |->
                      [Cts |-> AsSeq([j \in 1..numCts |->
                                   CombinedCt(db, query, numCts, nprocs, col - 1, j - 1,
                                              nprocs - 1)])]]),
         NumBytesPerCiphertext |-> NumBytesPerCiphertext(db, query, numCts),
         SlotBytes |-> db.SlotBytes]

\* RecoverEncrypted(res, sk)
RecoverEncrypted(res) ==
    AsSeq([i \in 1..Len(res.Slots) |->
        NewSlotFromGmpIntArray(
            AsSeq([j \in 1..Len(res.Slots[i].Cts) |-> Decrypt(res.Pk, res.Slots[i].Cts[j])]),
            res.SlotBytes, res.NumBytesPerCiphertext)])

(***************************************************************************)
(* db.go, query.go: doubly encrypted (recursive) queries.                  *)
(***************************************************************************)
\* dbmd.NewDoublyEncryptedQueryWithDimentions(pk, width, height, groupSize, index)
NewDoublyEncryptedQueryWithDimentions(pk, width, height, groupSize, index, r) ==
    LET coords   == IF index = -1 THEN <<-1, -1>>
                    ELSE IndexToCoordinates(index, width, height)
        rowIndex == coords[1]
        colIndex == coords[2]
    IN  [Row |-> [Pk |-> pk,
                  EBits |-> AsSeq([i \in 1..height |->
                      EncryptBit(pk, IF i - 1 = rowIndex THEN 1 ELSE 0, 1, r, i)]),
                  GroupSize |-> 1, DBWidth |-> width * groupSize, DBHeight |-> height],
         Col |-> [Pk |-> pk,
                  EBits |-> AsSeq([i \in 1..width |->
                      EncryptBit(pk, IF i - 1 = colIndex THEN 1 ELSE 0, 2, r, 50 + i)]),
                  GroupSize |-> groupSize, DBWidth |-> width, DBHeight |-> height]]

\* dbmd.NewDoublyEncryptedQuery(pk, groupSize, index)
NewDoublyEncryptedQuery(dbmd, pk, groupSize, index, r) ==
    LET dims == GetDimentionsForDatabase(dbmd, SqrtHeight(dbmd), groupSize)
    IN  NewDoublyEncryptedQueryWithDimentions(pk, dims[1], dims[2], groupSize, index, r)

\* res[member][j] after the columns below col have been folded in
RECURSIVE GroupCt(_, _, _, _, _)
GroupCt(query, result, member, j, col) ==
    IF col <= 0 THEN nullCiphertext(2)
    ELSE IF (col - 1) % query.GroupSize # member
    THEN GroupCt(query, result, member, j, col - 1)
    ELSE Add(query.Pk, GroupCt(query, result, member, j, col - 1),
             ConstMult(query.Pk, query.EBits[((col - 1) \div query.GroupSize) + 1],
                       result.Slots[col].Cts[j + 1].C))

\* db.PrivateEncryptedQueryOverEncryptedResult(query, result, nprocs)
PrivateEncryptedQueryOverEncryptedResult(db, query, result, nprocs) ==
    IF \/ Len(result.Slots) = 0 \/ query.GroupSize <= 0
       \/ Len(result.Slots) % query.GroupSize # 0
    THEN [panic |-> TRUE, err |-> FALSE]
    ELSE [panic |-> FALSE, err |-> FALSE, Pk |-> query.Pk,
          Slots |-> AsSeq([i \in 1..query.GroupSize |->
                       [Cts |-> AsSeq([j \in 1..Len(result.Slots[1].Cts) |->
                                    GroupCt(query, result, i - 1, j - 1,
                                            Len(result.Slots))])]]),
          NumBytesPerCiphertext |-> result.NumBytesPerCiphertext,
          SlotBytes |-> db.SlotBytes]

\* db.PrivateDoublyEncryptedQuery(query, nprocs)
PrivateDoublyEncryptedQuery(db, query, nprocs) ==
    IF \/ query.Row.GroupSize > db.DBSize \/ query.Row.GroupSize = 0
       \/ query.Col.GroupSize > query.Row.DBWidth \/ query.Col.GroupSize = 0
    THEN [panic |-> FALSE, err |-> TRUE]
    ELSE The({PrivateEncryptedQueryOverEncryptedResult(db, query.Col, rowQueryRes, nprocs) :
                 rowQueryRes \in {PrivateEncryptedQuery(db, query.Row, nprocs)}})

\* RecoverDoublyEncrypted(res, sk)
RecoverDoublyEncrypted(res) ==
    AsSeq([i \in 1..Len(res.Slots) |->
        NewSlotFromGmpIntArray(
            AsSeq([j \in 1..Len(res.Slots[i].Cts) |->
                Decrypt(res.Pk, [C |-> Decrypt(res.Pk, res.Slots[i].Cts[j]), Level |-> 1])]),
            res.SlotBytes, res.NumBytesPerCiphertext)])

(***************************************************************************)
(* SpecAHE: a client builds a singly or doubly encrypted query for a       *)
(* database, the server answers it with some worker count, the client      *)
(* decrypts the answer.                                                    *)
(***************************************************************************)
\* the slot widths the encrypted databases are built with: one ciphertext per
\* slot, and two with a short final chunk
AHESlotBytes == {1, 3}

AHEInit ==
    /\ \E seed \in 0..MaxRnd, size \in 1..MaxGridDBSize, numBytes \in AHESlotBytes :
          aheSt = [phase |-> "db", db |-> GenerateRandomDB(seed, size, numBytes),
                   groupSize |-> 0, index |-> 0, width |-> 0, height |-> 0,
                   query |-> <<>>, nprocs |-> 0, result |-> <<>>, recovered |-> <<>>]
    /\ dpfSt = Idle /\ slotSt = Idle /\ sharedSt = Idle /\ aspirSt = Idle /\ auditSt = Idle /\ runSt = Idle /\ memSt = Idle /\ kwSt = Idle /\ proofSt = Idle /\ qSt = Idle /\ gridSt = Idle /\ chalSt = Idle /\ rowsSt = Idle /\ bstSt = Idle

\* NewEncryptedQuery: the default grid of height ceil(sqrt(DBSize))
AHENewEncryptedQuery ==
    /\ aheSt.phase = "db"
    /\ \E groupSize \in 1..MaxGroupSize, r \in 0..MaxRnd :
          \E dims \in {GetDimentionsForDatabase(aheSt.db, SqrtHeight(aheSt.db), groupSize)} :
             \E index \in 0..(dims[2] - 1) :
                aheSt' = [aheSt EXCEPT
                    !.phase = "query", !.groupSize = groupSize, !.index = index,
                    !.width = dims[1], !.height = dims[2],
                    !.query = NewEncryptedQuery(aheSt.db, Pk, groupSize, index, r)]
    /\ UNCHANGED <<dpfSt, slotSt, sharedSt, aspirSt, auditSt, runSt, memSt, kwSt, proofSt, qSt, gridSt, chalSt, rowsSt, bstSt>>

\* NewEncryptedQueryWithDimentions on a grid GetDimentionsForDatabase produced
AHENewEncryptedQueryWithDimentions ==
    /\ aheSt.phase = "db"
    /\ \E groupSize \in 1..MaxGroupSize, r \in 0..MaxRnd, height \in 1..aheSt.db.DBSize :
          \E dims \in {GetDimentionsForDatabase(aheSt.db, height, groupSize)} :
             \E index \in 0..(dims[2] - 1) :
                aheSt' = [aheSt EXCEPT
                    !.phase = "query", !.groupSize = groupSize, !.index = index,
                    !.width = dims[1], !.height = dims[2],
                    !.query = NewEncryptedQueryWithDimentions(Pk, dims[1], dims[2],
                                                              groupSize, index, r)]
    /\ UNCHANGED <<dpfSt, slotSt, sharedSt, aspirSt, auditSt, runSt, memSt, kwSt, proofSt, qSt, gridSt, chalSt, rowsSt, bstSt>>

AHEPrivateEncryptedQuery ==
    /\ aheSt.phase = "query"
    /\ \E nprocs \in 1..MaxProcs :
          aheSt' = [aheSt EXCEPT
              !.phase = "result", !.nprocs = nprocs,
              !.result = PrivateEncryptedQuery(aheSt.db, aheSt.query, nprocs)]
    /\ UNCHANGED <<dpfSt, slotSt, sharedSt, aspirSt, auditSt, runSt, memSt, kwSt, proofSt, qSt, gridSt, chalSt, rowsSt, bstSt>>

AHERecoverEncrypted ==
    /\ aheSt.phase = "result"
    /\ aheSt' = [aheSt EXCEPT !.phase = "recovered",
                              !.recovered = RecoverEncrypted(aheSt.result)]
    /\ UNCHANGED <<dpfSt, slotSt, sharedSt, aspirSt, auditSt, runSt, memSt, kwSt, proofSt, qSt, gridSt, chalSt, rowsSt, bstSt>>

\* the group sizes a received query may carry
WireGroupSizes(db) == {-1, 0, 1, 2, db.DBSize + 1}

\* NewDoublyEncryptedQuery(pk, groupSize, index) for a group index of the database
AHENewDoublyEncryptedQuery ==
    /\ aheSt.phase = "db"
    /\ \E groupSize \in 1..MaxGroupSize, r \in 0..MaxRnd :
          \E dims \in {GetDimentionsForDatabase(aheSt.db, SqrtHeight(aheSt.db), groupSize)} :
             \E index \in 0..(CeilDiv(aheSt.db.DBSize, groupSize) - 1) :
                aheSt' = [aheSt EXCEPT
                    !.phase = "dquery", !.groupSize = groupSize, !.index = index,
                    !.width = dims[1], !.height = dims[2],
                    !.query = NewDoublyEncryptedQuery(aheSt.db, Pk, groupSize, index, r)]
    /\ UNCHANGED <<dpfSt, slotSt, sharedSt, aspirSt, auditSt, runSt, memSt, kwSt, proofSt, qSt, gridSt, chalSt, rowsSt, bstSt>>

\* a doubly encrypted query as it arrives at the server: the group sizes of
\* its row and column parts are whatever the message holds
AHEReceiveDoublyEncryptedQuery ==
    /\ aheSt.phase = "db"
    /\ \E rowGroupSize \in WireGroupSizes(aheSt.db), colGroupSize \in WireGroupSizes(aheSt.db) :
          \E dims \in {GetDimentionsForDatabase(aheSt.db, SqrtHeight(aheSt.db), 1)} :
             \E q \in {NewDoublyEncryptedQuery(aheSt.db, Pk, 1, 0, 0)} :
                aheSt' = [aheSt EXCEPT
                    !.phase = "wquery", !.groupSize = colGroupSize, !.index = 0,
                    !.width = dims[1], !.height = dims[2],
                    !.query = [Row |-> [q.Row EXCEPT !.GroupSize = rowGroupSize],
                               Col |-> [q.Col EXCEPT !.GroupSize = colGroupSize]]]
    /\ UNCHANGED <<dpfSt, slotSt, sharedSt, aspirSt, auditSt, runSt, memSt, kwSt, proofSt, qSt, gridSt, chalSt, rowsSt, bstSt>>

AHEPrivateDoublyEncryptedQuery ==
    /\ aheSt.phase \in {"dquery", "wquery"}
    /\ \E nprocs \in 1..MaxProcs :
          \E res \in {PrivateDoublyEncryptedQuery(aheSt.db, aheSt.query, nprocs)} :
             aheSt' = [aheSt EXCEPT
                 !.phase = IF aheSt.phase = "wquery"
                           THEN (IF res.panic THEN "wpanicked"
                                 ELSE IF res.err THEN "werror" ELSE "wresult")
                           ELSE IF res.panic THEN "panicked"
                           ELSE IF res.err THEN "error" ELSE "dresult",
                 !.nprocs = nprocs, !.result = res]
    /\ UNCHANGED <<dpfSt, slotSt, sharedSt, aspirSt, auditSt, runSt, memSt, kwSt, proofSt, qSt, gridSt, chalSt, rowsSt, bstSt>>

AHERecoverDoublyEncrypted ==
    /\ aheSt.phase = "dresult"
    /\ aheSt' = [aheSt EXCEPT !.phase = "drecovered",
                              !.recovered = RecoverDoublyEncrypted(aheSt.result)]
    /\ UNCHANGED <<dpfSt, slotSt, sharedSt, aspirSt, auditSt, runSt, memSt, kwSt, proofSt, qSt, gridSt, chalSt, rowsSt, bstSt>>

AHENext ==
    \/ AHENewEncryptedQuery
    \/ AHENewEncryptedQueryWithDimentions
    \/ AHEPrivateEncryptedQuery
    \/ AHERecoverEncrypted
    \/ AHENewDoublyEncryptedQuery
    \/ AHEReceiveDoublyEncryptedQuery
    \/ AHEPrivateDoublyEncryptedQuery
    \/ AHERecoverDoublyEncrypted

SpecAHE == AHEInit /\ [][AHENext]_vars

\* C5: AHE PIR.  For a query built at row r of a grid produced for the
\* database and answered with any worker count, RecoverEncrypted gives width
\* slots, slot j being db.Slots[r*width + j] wherever r*width + j < DBSize.
C5_EncryptedPIR ==
    aheSt.phase = "recovered" =>
        /\ Len(aheSt.recovered) = aheSt.width
        /\ \A j \in 0..(aheSt.width - 1) :
              aheSt.index * aheSt.width + j < aheSt.db.DBSize =>
                  /\ ~aheSt.recovered[j + 1].panic
                  /\ aheSt.recovered[j + 1].Data
                         = aheSt.db.Slots[aheSt.index * aheSt.width + j + 1]

\* C5 witness: two workers answered a query for the last row of a grid of at
\* least three rows over three-byte slots (two ciphertexts per slot), and a
\* slot with a zero first byte came back.
C5_Witness ==
    /\ aheSt.phase = "recovered"
    /\ aheSt.nprocs = 2
    /\ aheSt.height >= 3
    /\ aheSt.index = aheSt.height - 1
    /\ aheSt.db.SlotBytes = 3
    /\ Len(aheSt.result.Slots[1].Cts) = 2
    /\ aheSt.recovered[1].Data = aheSt.db.Slots[aheSt.index * aheSt.width + 1]
    /\ aheSt.recovered[1].Data[1] = 0
    /\ aheSt.recovered[1].Data # ZeroBytes(3)

\* C6: doubly encrypted PIR.  For every group size g and group index
\* i < ceil(DBSize/g), RecoverDoublyEncrypted over the answer to
\* NewDoublyEncryptedQuery(pk, g, i) has exactly g slots, slot m being
\* db.Slots[i*g + m] wherever i*g + m < DBSize.
C6_DoublyEncryptedPIR ==
    aheSt.phase \in {"drecovered", "error", "panicked"} =>
        /\ aheSt.phase = "drecovered"
        /\ Len(aheSt.recovered) = aheSt.groupSize
        /\ \A m \in 0..(aheSt.groupSize - 1) :
              aheSt.index * aheSt.groupSize + m < aheSt.db.DBSize =>
                  /\ ~aheSt.recovered[m + 1].panic
                  /\ aheSt.recovered[m + 1].Data
                         = aheSt.db.Slots[aheSt.index * aheSt.groupSize + m + 1]

\* the group size of a query the guard is to refuse
InvalidGroupSize(db, query) ==
    \/ query.Row.GroupSize <= 0 \/ query.Col.GroupSize <= 0
    \/ query.Row.GroupSize > db.DBSize \/ query.Col.GroupSize > db.DBSize
    \/ query.Col.GroupSize > query.Row.DBWidth

\* C12: group-size guard.  PrivateDoublyEncryptedQuery returns the
\* invalid-group-size error, neither panicking nor returning a result, whenever
\* the query's group size is zero or negative, exceeds DBSize or, for the
\* column part, exceeds the width of the row part.
C12_GroupSizeGuard ==
    ( /\ aheSt.phase \in {"dresult", "error", "panicked", "wresult", "werror", "wpanicked"}
      /\ InvalidGroupSize(aheSt.db, aheSt.query) )
        => aheSt.phase \in {"error", "werror"}

(***************************************************************************)
(* paillier: the nested operations the ASPIR proof uses.  Randomness is    *)
(* handed around as a gmp.Int: 1..RndMod for the randomness of a           *)
(* ciphertext, 0 for the value no encryption is made with; encrypting with *)
(* randomness 0 gives the ring element 0, and the randomness extracted     *)
(* from the ring element 0 is 0.  What decryption makes of the ring        *)
(* element 0 is left to the library: `junk` ranges over InvalidPlain.      *)
(***************************************************************************)
\* the plaintexts sk.Decrypt may give for the ring element 0
InvalidPlain == {0, 1}

\* pk.Encrypt(m) with the n-th draw of stream r
Encrypt(pk, m, r, n) == Ct(pk, IntValue(m), RandByte(r, 200 + n), 1)

\* pk.EncryptWithRAtLevel(m, r, level)
EncryptWithRAtLevel(pk, m, r, level) ==
    IF r = IntZero THEN [C |-> IntZero, Level |-> level]
    ELSE Ct(pk, IntValue(m), IntValue(r) - 1, level)

\* sk.DecryptNestedCiphertextLayer(ct)
DecryptNestedCiphertextLayer(pk, ct) == [C |-> IntOf(PlainOf(ct)), Level |-> 1]

\* sk.ExtractRandonness(ct)
ExtractRandonness(pk, ct) ==
    IF ct.C = IntZero THEN IntZero ELSE IntOf(RndOf(ct) + 1)

\* sk.NestedDecrypt(ct)
NestedDecrypt(pk, ct, junk) ==
    The({IF inner.C = IntZero THEN IntOf(junk) ELSE Decrypt(pk, inner) :
            inner \in {DecryptNestedCiphertextLayer(pk, ct)}})

\* the level-two ciphertext of a level-one ciphertext value
Nest(pk, inner, r) == Ct(pk, IntValue(inner.C), r, 2)

\* pk.NestedSub(a, b): the inner ciphertext of a with b taken from it
NestedSub(pk, a, b) ==
    The({IF inner.C = IntZero THEN a
         ELSE Nest(pk, Ct(pk, PlainOf(inner) + IntValue(pk.N) - PlainOf(b),
                          RndOf(inner) + RndMod - RndOf(b), 1),
                   RndOf(a)) :
            inner \in {DecryptNestedCiphertextLayer(pk, a)}})

\* sk.NestedRandomize(ct) with the draws a and b: <<ct', a, b>>
NestedRandomize(pk, ct, a, b) ==
    The({<<IF inner.C = IntZero THEN Ct(pk, 0, RndOf(ct) + b, 2)
           ELSE Nest(pk, Ct(pk, PlainOf(inner), RndOf(inner) + a, 1), RndOf(ct) + b),
           a, b>> :
            inner \in {DecryptNestedCiphertextLayer(pk, ct)}})

\* sk.ProveDDLEQ(secparam, ct1, ct2, a, b): an ideal proof, which verifies
\* exactly for the pair it was made for, and only if ct2 re-randomizes ct1
ProveDDLEQ(pk, ct1, ct2, a, b) ==
    [ct1 |-> ct1, ct2 |-> ct2, holds |-> ct2 = NestedRandomize(pk, ct1, a, b)[1]]

\* pk.VerifyDDLEQProof(ct1, ct2, proof)
VerifyDDLEQProof(pk, ct1, ct2, proof) ==
    proof.ct1 = ct1 /\ proof.ct2 = ct2 /\ proof.holds

(***************************************************************************)
(* aspir.go, the AHE variant with one query (AuthTokenForKey).             *)
(***************************************************************************)
\* AuthTokenForKey(pk, authKey)
AuthTokenForKey(pk, authKey, r) == [T |-> Encrypt(pk, SetBytes(authKey), r, 90)]

\* AuthChalForQuery(secparam, keyDB, query, authToken, nprocs)
AuthChalForQuery(keyDB, query, authToken, nprocs) ==
    The({IF res.err \/ res.panic THEN [err |-> TRUE, panic |-> res.panic]
         ELSE IF Len(res.Slots) # 1 \/ Len(res.Slots[1].Cts) # 1
         THEN [err |-> TRUE, panic |-> FALSE]
         ELSE [err |-> FALSE, panic |-> FALSE,
               T |-> NestedSub(query.Row.Pk, res.Slots[1].Cts[1], authToken.T)] :
            res \in {PrivateDoublyEncryptedQuery(keyDB, query, nprocs)}})

\* the proof token AuthProve builds for the challenge ciphertext chal
ProofTokenFor(pk, chal, a, b) ==
    The({[T |-> ct2, P |-> ProveDDLEQ(pk, chal, ct2, a, b),
          R |-> ExtractRandonness(pk, DecryptNestedCiphertextLayer(pk, ct2)),
          S |-> ExtractRandonness(pk, ct2)] :
            ct2 \in {NestedRandomize(pk, chal, a, b)[1]}})

\* AuthProve(sk, chalToken)
AuthProve(pk, chalToken, a, b, junk) ==
    IF NestedDecrypt(pk, chalToken.T, junk) # IntZero
    THEN [panic |-> TRUE]
    ELSE [panic |-> FALSE, proof |-> ProofTokenFor(pk, chalToken.T, a, b)]

\* the two checks of AuthCheck on the challenge ciphertext ct1
CheckProof(pk, ct1, proofToken) ==
    /\ VerifyDDLEQProof(pk, ct1, proofToken.T, proofToken.P)
    /\ EncryptWithRAtLevel(pk, EncryptWithRAtLevel(pk, IntZero, proofToken.R, 1).C,
                           proofToken.S, 2).C = proofToken.T.C

\* AuthCheck(pk, chalToken, proofToken)
AuthCheck(pk, chalToken, proofToken) == CheckProof(pk, chalToken.T, proofToken)

(***************************************************************************)
(* aspir.go, the AHE variant with two queries (GenerateAuthenticatedQuery). *)
(***************************************************************************)
\* GenerateAuthenticatedQuery(dbmd, pk, groupSize, index, authKey) with the
\* outcome `bit` of rand.Intn(2): <<authQuery, bit>>
GenerateAuthenticatedQuery(dbmd, pk, groupSize, index, authKey, r, bit) ==
    LET queryReal == NewDoublyEncryptedQuery(dbmd, pk, groupSize, -1, r)
        queryFake == NewDoublyEncryptedQuery(dbmd, pk, groupSize, -1, r + 1)
        fakeToken == Encrypt(pk, IntZero, r, 91)
        realToken == Encrypt(pk, IntZero, r, 92)
    IN  <<[Query0 |-> IF bit = 0 THEN queryReal ELSE queryFake,
           Query1 |-> IF bit = 0 THEN queryFake ELSE queryReal,
           AuthToken0 |-> IF bit = 0 THEN realToken ELSE fakeToken,
           AuthToken1 |-> IF bit = 0 THEN fakeToken ELSE realToken],
          bit>>

\* the result of one of the two queries on the key database
KeyQueryResult(keyDB, query, nprocs) ==
    The({PrivateEncryptedQueryOverEncryptedResult(keyDB, query.Col, rowQueryRes, nprocs) :
            rowQueryRes \in {PrivateEncryptedQuery(keyDB, query.Row, nprocs)}})

\* AuthChalForQuery(secparam, keyDB, query, nprocs), two-query revision
AuthChalForQueryTwo(keyDB, query, nprocs) ==
    The({IF res0.panic \/ res1.panic THEN [panic |-> TRUE]
         ELSE [panic |-> FALSE,
               Token0 |-> NestedSub(query.Query0.Row.Pk, res0.Slots[1].Cts[1],
                                    query.AuthToken0),
               Token1 |-> NestedSub(query.Query1.Row.Pk, res1.Slots[1].Cts[1],
                                    query.AuthToken1)] :
            res0 \in {KeyQueryResult(keyDB, query.Query0, nprocs)},
            res1 \in {KeyQueryResult(keyDB, query.Query1, nprocs)}})

\* AuthProve proving the client's recorded branch whatever the tokens decrypt to
AuthProveTwoRecordedBit(pk, bit, chalToken, a, b, junk) ==
    The({IF decTok0 # IntZero /\ decTok1 # IntZero THEN [err |-> TRUE]
         ELSE [err |-> FALSE,
               proof |-> [QBit |-> IF bit = 0 THEN 0 ELSE 1] @@
                         ProofTokenFor(pk, IF bit = 0 THEN chalToken.Token0
                                           ELSE chalToken.Token1, a, b)] :
            decTok0 \in {NestedDecrypt(pk, chalToken.Token0, junk)},
            decTok1 \in {NestedDecrypt(pk, chalToken.Token1, junk)}})

\* AuthProve(sk, bit, chalToken), two-query revision
AuthProveTwo(pk, bit, chalToken, a, b, junk) ==
    The({IF decTok0 # IntZero /\ decTok1 # IntZero THEN [err |-> TRUE]
         ELSE The({[err |-> FALSE,
                    proof |-> [QBit |-> queryBit] @@
                              ProofTokenFor(pk, IF queryBit = 0 THEN chalToken.Token0
                                                ELSE chalToken.Token1, a, b)] :
                      queryBit \in {IF decTok0 # IntZero \/ decTok1 # IntZero
                                    THEN (IF decTok0 = IntZero THEN 0 ELSE 1)
                                    ELSE (IF bit = 0 THEN 0 ELSE 1)}}) :
            decTok0 \in {NestedDecrypt(pk, chalToken.Token0, junk)},
            decTok1 \in {NestedDecrypt(pk, chalToken.Token1, junk)}})

\* AuthCheck(pk, chalToken, proofToken), two-query revision
AuthCheckTwo(pk, chalToken, proofToken) ==
    CheckProof(pk, IF proofToken.QBit = 0 THEN chalToken.Token0 ELSE chalToken.Token1,
               proofToken)

(***************************************************************************)
(* SpecASPIR: a client asks for the record at an index of the key          *)
(* database, presenting a key tag; the server challenges, the client       *)
(* proves, the server checks.  Both revisions of the protocol run.         *)
(***************************************************************************)
\* the slot widths of key databases: one ciphertext per key
KeySlotBytes == {2}

\* the key tags a client presents for an index: the key of the record, and one more
KeyTagsFor(keyDB, index) ==
    {keyDB.Slots[index + 1], AsSeq([j \in 1..keyDB.SlotBytes |-> 9])}

ASPIRInit ==
    /\ \E seed \in 0..MaxRnd, size \in 1..MaxGridDBSize, numBytes \in KeySlotBytes :
          aspirSt = [phase |-> "keydb", keyDB |-> GenerateRandomDB(seed, size, numBytes),
                     index |-> 0, tag |-> <<>>, rnd |-> 0, bit |-> 0, query |-> <<>>,
                     token |-> <<>>, chal |-> <<>>, proof |-> <<>>, accepted |-> FALSE]
    /\ dpfSt = Idle /\ slotSt = Idle /\ sharedSt = Idle /\ aheSt = Idle /\ auditSt = Idle /\ runSt = Idle /\ memSt = Idle /\ kwSt = Idle /\ proofSt = Idle /\ qSt = Idle /\ gridSt = Idle /\ chalSt = Idle /\ rowsSt = Idle /\ bstSt = Idle

\* the client of TestASPIR: NewDoublyEncryptedQuery(pk, 1, index) and AuthTokenForKey
ASPIRAuthTokenForKey ==
    /\ aspirSt.phase = "keydb"
    /\ \E index \in 0..(aspirSt.keyDB.DBSize - 1), r \in 0..MaxRnd :
          \E tag \in KeyTagsFor(aspirSt.keyDB, index) :
             aspirSt' = [aspirSt EXCEPT
                 !.phase = "sent", !.index = index, !.tag = tag, !.rnd = r,
                 !.query = NewDoublyEncryptedQuery(aspirSt.keyDB, Pk, 1, index, r),
                 !.token = AuthTokenForKey(Pk, tag, r)]
    /\ UNCHANGED <<dpfSt, slotSt, sharedSt, aheSt, auditSt, runSt, memSt, kwSt, proofSt, qSt, gridSt, chalSt, rowsSt, bstSt>>

ASPIRAuthChalForQuery ==
    /\ aspirSt.phase = "sent"
    /\ \E nprocs \in 1..MaxProcs :
          \E chal \in {AuthChalForQuery(aspirSt.keyDB, aspirSt.query, aspirSt.token, nprocs)} :
             aspirSt' = [aspirSt EXCEPT
                 !.phase = IF chal.panic THEN "panicked"
                           ELSE IF chal.err THEN "chalError" ELSE "chal",
                 !.chal = chal]
    /\ UNCHANGED <<dpfSt, slotSt, sharedSt, aheSt, auditSt, runSt, memSt, kwSt, proofSt, qSt, gridSt, chalSt, rowsSt, bstSt>>

ASPIRAuthProve ==
    /\ aspirSt.phase = "chal"
    /\ \E junk \in InvalidPlain :
          \E res \in {AuthProve(Pk, aspirSt.chal, RandByte(aspirSt.rnd, 95),
                                RandByte(aspirSt.rnd, 96), junk)} :
             aspirSt' = [aspirSt EXCEPT
                 !.phase = IF res.panic THEN "panicked" ELSE "proof",
                 !.proof = IF res.panic THEN <<>> ELSE res.proof]
    /\ UNCHANGED <<dpfSt, slotSt, sharedSt, aheSt, auditSt, runSt, memSt, kwSt, proofSt, qSt, gridSt, chalSt, rowsSt, bstSt>>

ASPIRAuthCheck ==
    /\ aspirSt.phase = "proof"
    /\ aspirSt' = [aspirSt EXCEPT
           !.phase = "checked",
           !.accepted = AuthCheck(Pk, aspirSt.chal, aspirSt.proof)]
    /\ UNCHANGED <<dpfSt, slotSt, sharedSt, aheSt, auditSt, runSt, memSt, kwSt, proofSt, qSt, gridSt, chalSt, rowsSt, bstSt>>

\* the client of the two-query revision
ASPIRGenerateAuthenticatedQuery ==
    /\ aspirSt.phase = "keydb"
    /\ \E index \in 0..(aspirSt.keyDB.DBSize - 1), r \in 0..MaxRnd, bit \in 0..1 :
          \E tag \in KeyTagsFor(aspirSt.keyDB, index) :
             \E q \in {GenerateAuthenticatedQuery(aspirSt.keyDB, Pk, 1, index, tag, r, bit)} :
                aspirSt' = [aspirSt EXCEPT
                    !.phase = "sent2", !.index = index, !.tag = tag, !.rnd = r,
                    !.query = q[1], !.bit = q[2]]
    /\ UNCHANGED <<dpfSt, slotSt, sharedSt, aheSt, auditSt, runSt, memSt, kwSt, proofSt, qSt, gridSt, chalSt, rowsSt, bstSt>>

ASPIRAuthChalForQueryTwo ==
    /\ aspirSt.phase = "sent2"
    /\ \E nprocs \in 1..MaxProcs :
          \E chal \in {AuthChalForQueryTwo(aspirSt.keyDB, aspirSt.query, nprocs)} :
             aspirSt' = [aspirSt EXCEPT
                 !.phase = IF chal.panic THEN "panicked" ELSE "chal2",
                 !.chal = chal]
    /\ UNCHANGED <<dpfSt, slotSt, sharedSt, aheSt, auditSt, runSt, memSt, kwSt, proofSt, qSt, gridSt, chalSt, rowsSt, bstSt>>

ASPIRAuthProveTwo ==
    /\ aspirSt.phase = "chal2"
    /\ \E junk \in InvalidPlain :
          \E res \in {AuthProveTwo(Pk, aspirSt.bit, aspirSt.chal, RandByte(aspirSt.rnd, 95),
                                   RandByte(aspirSt.rnd, 96), junk)} :
             aspirSt' = [aspirSt EXCEPT
                 !.phase = IF res.err THEN "proveError" ELSE "proof2",
                 !.proof = IF res.err THEN <<>> ELSE res.proof]
    /\ UNCHANGED <<dpfSt, slotSt, sharedSt, aheSt, auditSt, runSt, memSt, kwSt, proofSt, qSt, gridSt, chalSt, rowsSt, bstSt>>

ASPIRAuthCheckTwo ==
    /\ aspirSt.phase = "proof2"
    /\ aspirSt' = [aspirSt EXCEPT
           !.phase = "checked2",
           !.accepted = AuthCheckTwo(Pk, aspirSt.chal, aspirSt.proof)]
    /\ UNCHANGED <<dpfSt, slotSt, sharedSt, aheSt, auditSt, runSt, memSt, kwSt, proofSt, qSt, gridSt, chalSt, rowsSt, bstSt>>

ASPIRNext ==
    \/ ASPIRAuthTokenForKey
    \/ ASPIRAuthChalForQuery
    \/ ASPIRAuthProve
    \/ ASPIRAuthCheck
    \/ ASPIRGenerateAuthenticatedQuery
    \/ ASPIRAuthChalForQueryTwo
    \/ ASPIRAuthProveTwo
    \/ ASPIRAuthCheckTwo

SpecASPIR == ASPIRInit /\ [][ASPIRNext]_vars

\* a run of the protocol has ended
ASPIREnded ==
    aspirSt.phase \in {"chalError", "panicked", "proveError", "checked", "checked2"}

\* the client presented the key of the record it asked for
ASPIRHonestTag ==
    /\ aspirSt.phase # "keydb"
    /\ aspirSt.tag = aspirSt.keyDB.Slots[aspirSt.index + 1]

\* C8: ASPIR completeness (AHE variant).  For every key database and index,
\* when the client's key tag equals keyDB.Slots[index], the run of
\* AuthChalForQuery, AuthProve and AuthCheck ends with AuthCheck returning
\* true.
C8_Completeness ==
    (ASPIREnded /\ ASPIRHonestTag) =>
        /\ aspirSt.phase \in {"checked", "checked2"}
        /\ aspirSt.accepted

\* C9: ASPIR soundness (AHE variant).  No run of query formation, challenge,
\* prove and check in which the client's key tag differs from
\* keyDB.Slots[index] ends with AuthCheck returning true.
C9_Soundness ==
    (aspirSt.phase \in {"checked", "checked2"} /\ ~ASPIRHonestTag) => ~aspirSt.accepted

\* the selectors of a doubly encrypted query decrypt to one-hot vectors at
\* (row, col); row = col = -1 stands for the all-zero selectors
SelectorsAt(query, row, col) ==
    /\ \A i \in 1..Len(query.Row.EBits) :
          Decrypt(Pk, query.Row.EBits[i]) = IntOf(IF i - 1 = row THEN 1 ELSE 0)
    /\ \A i \in 1..Len(query.Col.EBits) :
          Decrypt(Pk, query.Col.EBits[i]) = IntOf(IF i - 1 = col THEN 1 ELSE 0)

\* the coordinates of an index in the grid of NewDoublyEncryptedQuery
CoordinatesOf(dbmd, groupSize, index) ==
    LET dims == GetDimentionsForDatabase(dbmd, SqrtHeight(dbmd), groupSize)
    IN  IndexToCoordinates(index, dims[1], dims[2])

\* C22: ASPIR query formation: with b the returned bit, Query_b is the real
\* query, one-hot at the coordinates of index, and AuthToken_b encrypts
\* authKey; Query_(1-b) is the null query with all-zero selectors and
\* AuthToken_(1-b) encrypts 0
C22_QueryFormation ==
    aspirSt.phase = "sent2" =>
        LET q      == aspirSt.query
            real   == IF aspirSt.bit = 0 THEN q.Query0 ELSE q.Query1
            null   == IF aspirSt.bit = 0 THEN q.Query1 ELSE q.Query0
            realT  == IF aspirSt.bit = 0 THEN q.AuthToken0 ELSE q.AuthToken1
            nullT  == IF aspirSt.bit = 0 THEN q.AuthToken1 ELSE q.AuthToken0
            coords == CoordinatesOf(aspirSt.keyDB, 1, aspirSt.index)
        IN  /\ SelectorsAt(real, coords[1], coords[2])
            /\ Decrypt(Pk, realT) = Decrypt(Pk, AuthTokenForKey(Pk, aspirSt.tag, 0).T)
            /\ SelectorsAt(null, -1, -1)
            /\ Decrypt(Pk, nullT) = IntZero

(***************************************************************************)
(* SpecAudit: CheckAudit applied to any list of audit token shares of one  *)
(* length.                                                                 *)
(***************************************************************************)
\* the bytes audit tokens are made of
AuditByteVals == {0, 1, 255}

AuditInit ==
    /\ \E n \in 1..MaxParties, len \in 0..MaxAuditBytes :
          \E toks \in [1..n -> [1..len -> AuditByteVals]] :
             auditSt = [phase |-> "tokens",
                        tokens |-> AsSeq([i \in 1..n |-> [T |-> AsSeq(toks[i])]]),
                        accepted |-> FALSE]
    /\ dpfSt = Idle /\ slotSt = Idle /\ sharedSt = Idle /\ aheSt = Idle /\ aspirSt = Idle /\ runSt = Idle /\ memSt = Idle /\ kwSt = Idle /\ proofSt = Idle /\ qSt = Idle /\ gridSt = Idle /\ chalSt = Idle /\ rowsSt = Idle /\ bstSt = Idle

AuditCheckAudit ==
    /\ auditSt.phase = "tokens"
    /\ auditSt' = [auditSt EXCEPT !.phase = "checked",
                                  !.accepted = CheckAudit(auditSt.tokens)]
    /\ UNCHANGED <<dpfSt, slotSt, sharedSt, aheSt, aspirSt, runSt, memSt, kwSt, proofSt, qSt, gridSt, chalSt, rowsSt, bstSt>>

AuditNext == AuditCheckAudit

SpecAudit == AuditInit /\ [][AuditNext]_vars

\* the XOR of byte j of the first n tokens
RECURSIVE XorOfByte(_, _, _)
XorOfByte(tokens, j, n) ==
    IF n = 0 THEN 0 ELSE XorNat(XorOfByte(tokens, j, n - 1), tokens[n].T[j])

\* C11: audit linearity.  For every non-empty list of audit token shares of
\* one length, CheckAudit returns true if and only if the byte-wise XOR of
\* all the tokens is the all-zero slot.
C11_AuditLinearity ==
    auditSt.phase = "checked" =>
        (auditSt.accepted <=>
            \A j \in 1..Len(auditSt.tokens[1].T) :
                XorOfByte(auditSt.tokens, j, Len(auditSt.tokens)) = 0)

\* C11 witness: three different non-zero two-byte tokens were accepted
C11_Witness ==
    /\ auditSt.phase = "checked"
    /\ auditSt.accepted
    /\ Len(auditSt.tokens) = 3
    /\ Len(auditSt.tokens[1].T) = 2
    /\ auditSt.tokens[1] # auditSt.tokens[2]
    /\ auditSt.tokens[2] # auditSt.tokens[3]
    /\ \A i \in 1..3 : auditSt.tokens[i].T # ZeroBytes(2)


(***************************************************************************)
(* SpecPSSQ: PrivateSecretSharedQuery step by step.  The main loop starts  *)
(* one goroutine per row and waits after row i when i % nprocs = 0 or i is *)
(* the last row; a goroutine evaluates the DPF key at its row.  Evaluate2P *)
(* works on buffers of its own; EvaluateMP calls prf on the server's       *)
(* buffers f.Temp and f.Out, which all goroutines of a query share.        *)
(***************************************************************************)
\* the first block at or after i whose seed Sigma[gamma][i] is not all zero
RECURSIVE NextSeedBlock(_, _, _, _)
NextSeedBlock(k, gamma, p2, i) ==
    IF i >= p2 THEN p2
    ELSE IF k.Sigma[gamma + 1][i + 1] # ZeroBytes(BlockSize) THEN i
    ELSE NextSeedBlock(k, gamma, p2, i + 1)

\* y after the two inner loops of EvaluateMP for block i, reading buffer out
FoldBlock(k, mu, i, y, out) ==
    AsSeq([j \in 1..mu |-> XorBytes(k.CW[i + 1][j], XorBytes(y[j], PrfU32(out, j - 1)))])

\* a main loop that joins its goroutines after the last row only
WaitsAfterLast(i, nprocs, dimHeight) == i + 1 = dimHeight

\* if i%nprocs == 0 || i+1 == dimHeight { wg.Wait() }
WaitsAfter(i, nprocs, dimHeight) == i % nprocs = 0 \/ i + 1 = dimHeight

\* the party counts and worker counts of the runs explored
PSSQParties == {2, 3}

\* a call of PrivateSecretSharedQuery about to enter its main loop, for databases
\* of the given seeds and shares of the given numbers of queries made with the
\* given random streams
PSSQCalls(seeds, rnds, shareNos) ==
    /\ \E seed \in seeds, size \in 1..MaxDBSize, groupSize \in 1..2,
          numShares \in PSSQParties, r \in rnds, nprocs \in 1..MaxProcs :
          \E index \in 0..(DimHeightOf(size, groupSize) - 1) :
             \E db \in {GenerateRandomDB(seed, size, 2)} :
                \E q \in {newQueryShares(db, index, groupSize, numShares, r)} :
                   \E share \in (1..numShares) \cap shareNos :
                      LET dimHeight == DimHeightOf(size, groupSize)
                      IN  runSt = [phase |-> "loop", db |-> db, query |-> q.shares[share],
                                   nprocs |-> nprocs, dimHeight |-> dimHeight,
                                   numBits |-> NumBitsOf(dimHeight), i |-> 0,
                                   waiting |-> FALSE,
                                   bits |-> AsSeq([n \in 1..dimHeight |-> FALSE]),
                                   gor |-> AsSeq([n \in 1..dimHeight |->
                                               [pc |-> "none", blk |-> 0, y |-> <<>>]]),
                                   Out |-> <<>>, result |-> <<>>]
    /\ dpfSt = Idle /\ slotSt = Idle /\ sharedSt = Idle /\ aheSt = Idle /\ aspirSt = Idle /\ auditSt = Idle /\ memSt = Idle /\ kwSt = Idle /\ proofSt = Idle /\ qSt = Idle /\ gridSt = Idle /\ chalSt = Idle /\ rowsSt = Idle /\ bstSt = Idle

PSSQInit == PSSQCalls(0..1, 0..MaxRnd, 1..MaxParties)

\* nprocs == 1: row i is evaluated by the caller
PSSQInline ==
    /\ runSt.phase = "loop" /\ runSt.nprocs = 1 /\ runSt.i < runSt.dimHeight
    /\ \E bit \in {QueryBit(runSt.query, runSt.numBits, runSt.i)} :
          runSt' = [runSt EXCEPT !.bits[runSt.i + 1] = bit, !.i = @ + 1]
    /\ UNCHANGED <<dpfSt, slotSt, sharedSt, aheSt, aspirSt, auditSt, memSt, kwSt, proofSt, qSt, gridSt, chalSt, rowsSt, bstSt>>

\* wg.Add(1); go func(i, key); then wg.Wait() if i%nprocs == 0 || i+1 == dimHeight
PSSQGo ==
    /\ runSt.phase = "loop" /\ runSt.nprocs # 1 /\ runSt.i < runSt.dimHeight
    /\ ~runSt.waiting
    /\ LET p2    == P2Of(runSt.query.Key.NumParties)
           mu    == MuOf(runSt.numBits, runSt.query.Key.NumParties)
           gamma == GammaOf(runSt.numBits, runSt.i)
           g     == IF runSt.query.IsTwoParty
                    THEN [pc |-> "eval2P", blk |-> 0, y |-> <<>>]
                    ELSE [pc |-> "prf",
                          blk |-> NextSeedBlock(runSt.query.Key, gamma, p2, 0),
                          y |-> AsSeq([j \in 1..mu |-> ZeroU32])]
       IN  runSt' = [runSt EXCEPT
                       !.gor[runSt.i + 1] = g,
                       !.i = @ + 1,
                       !.waiting = WaitsAfter(runSt.i, runSt.nprocs, runSt.dimHeight)]
    /\ UNCHANGED <<dpfSt, slotSt, sharedSt, aheSt, aspirSt, auditSt, memSt, kwSt, proofSt, qSt, gridSt, chalSt, rowsSt, bstSt>>

\* a goroutine of a two-party query: Evaluate2P, then bits[i]
PSSQEvaluate2P ==
    /\ runSt.phase = "loop"
    /\ \E n \in 1..runSt.dimHeight :
          /\ runSt.gor[n].pc = "eval2P"
          /\ \E bit \in {QueryBit(runSt.query, runSt.numBits, n - 1)} :
                runSt' = [runSt EXCEPT !.gor[n].pc = "done", !.bits[n] = bit]
    /\ UNCHANGED <<dpfSt, slotSt, sharedSt, aheSt, aspirSt, auditSt, memSt, kwSt, proofSt, qSt, gridSt, chalSt, rowsSt, bstSt>>

\* a goroutine of a multi-party query: prf(s, f.FixedBlocks, numBlocks, f.Temp,
\* f.Out) for its next seed, or bits[i] when no seed is left
PSSQPrf ==
    /\ runSt.phase = "loop"
    /\ \E n \in 1..runSt.dimHeight :
          /\ runSt.gor[n].pc = "prf"
          /\ LET k     == runSt.query.Key
                 p2    == P2Of(k.NumParties)
                 mu    == MuOf(runSt.numBits, k.NumParties)
                 gamma == GammaOf(runSt.numBits, n - 1)
                 delta == DeltaOf(runSt.numBits, n - 1)
                 blk   == runSt.gor[n].blk
             IN  IF blk >= p2
                 THEN runSt' = [runSt EXCEPT
                                  !.gor[n].pc = "done",
                                  !.bits[n] = runSt.gor[n].y[delta + 1][1] % 2 = 0]
                 ELSE \E out \in {prf(k.Sigma[gamma + 1][blk + 1], runSt.query.PrfKeys,
                                      NumBlocksOf(mu))} :
                         runSt' = [runSt EXCEPT !.gor[n].pc = "fold", !.Out = out]
    /\ UNCHANGED <<dpfSt, slotSt, sharedSt, aheSt, aspirSt, auditSt, memSt, kwSt, proofSt, qSt, gridSt, chalSt, rowsSt, bstSt>>

\* the goroutine reads f.Out into y and folds cw[i] in
PSSQFold ==
    /\ runSt.phase = "loop"
    /\ \E n \in 1..runSt.dimHeight :
          /\ runSt.gor[n].pc = "fold"
          /\ LET k     == runSt.query.Key
                 p2    == P2Of(k.NumParties)
                 mu    == MuOf(runSt.numBits, k.NumParties)
                 gamma == GammaOf(runSt.numBits, n - 1)
                 blk   == runSt.gor[n].blk
             IN  runSt' = [runSt EXCEPT
                             !.gor[n].pc = "prf",
                             !.gor[n].blk = NextSeedBlock(k, gamma, p2, blk + 1),
                             !.gor[n].y = FoldBlock(k, mu, blk, @, runSt.Out)]
    /\ UNCHANGED <<dpfSt, slotSt, sharedSt, aheSt, aspirSt, auditSt, memSt, kwSt, proofSt, qSt, gridSt, chalSt, rowsSt, bstSt>>

\* a wg.Wait() that returns only once a goroutine of every row is done
PSSQWaitAllRows ==
    /\ runSt.phase = "loop" /\ runSt.waiting
    /\ \A n \in 1..runSt.dimHeight : runSt.gor[n].pc = "done"
    /\ runSt' = [runSt EXCEPT !.waiting = FALSE]
    /\ UNCHANGED <<dpfSt, slotSt, sharedSt, aheSt, aspirSt, auditSt, memSt, kwSt, proofSt, qSt, gridSt, chalSt, rowsSt, bstSt>>

\* wg.Wait() returns once every goroutine started so far is done
PSSQWait ==
    /\ runSt.phase = "loop" /\ runSt.waiting
    /\ \A n \in 1..runSt.dimHeight : runSt.gor[n].pc \in {"none", "done"}
    /\ runSt' = [runSt EXCEPT !.waiting = FALSE]
    /\ UNCHANGED <<dpfSt, slotSt, sharedSt, aheSt, aspirSt, auditSt, memSt, kwSt, proofSt, qSt, gridSt, chalSt, rowsSt, bstSt>>

\* the rows whose bit is set are XORed into the result slots
PSSQReturn ==
    /\ runSt.phase = "loop" /\ runSt.i = runSt.dimHeight /\ ~runSt.waiting
    /\ runSt' = [runSt EXCEPT
                   !.phase = "returned",
                   !.result = [SlotBytes |-> runSt.db.SlotBytes,
                               Shares |-> AsSeq([col \in 1..runSt.query.GroupSize |->
                                   XorRows(runSt.db, runSt.bits, runSt.query.GroupSize,
                                           runSt.dimHeight, col - 1, 0)])]]
    /\ UNCHANGED <<dpfSt, slotSt, sharedSt, aheSt, aspirSt, auditSt, memSt, kwSt, proofSt, qSt, gridSt, chalSt, rowsSt, bstSt>>

PSSQNext ==
    \/ PSSQInline
    \/ PSSQGo
    \/ PSSQEvaluate2P
    \/ PSSQPrf
    \/ PSSQFold
    \/ PSSQWait
    \/ PSSQReturn

SpecPSSQ == PSSQInit /\ [][PSSQNext]_vars

\* C13: worker-count independence of the secret-shared query: for every
\* database, query share and nprocs, under every interleaving of the evaluation
\* goroutines, PrivateSecretSharedQuery returns the shares of the
\* single-threaded run (nprocs = 1)
C13_WorkerCountIndependence ==
    runSt.phase = "returned" =>
        runSt.result = PrivateSecretSharedQuery(runSt.db, runSt.query, 1)


(***************************************************************************)
(* SpecPEQ: PrivateEncryptedQuery step by step.  The caller starts nprocs  *)
(* workers; worker i fills slotRes[i] from its rows, and every worker      *)
(* tests and sets the one numBytesPerCiphertext of the call without a      *)
(* lock.  After wg.Wait() the caller folds slotRes[1..] into slotRes[0].   *)
(***************************************************************************)
\* the first <<row, col>> at or after the given one, below row end, whose
\* slotIndex lies in the database; <<end, 0>> when there is none
RECURSIVE NextSlotOf(_, _, _, _, _)
NextSlotOf(db, dimWidth, end, row, col) ==
    IF row >= end THEN <<end, 0>>
    ELSE IF col >= dimWidth THEN NextSlotOf(db, dimWidth, end, row + 1, 0)
    ELSE IF row * dimWidth + col >= Len(db.Slots)
    THEN NextSlotOf(db, dimWidth, end, row, col + 1)
    ELSE <<row, col>>

\* the slots of a worker as the goroutine initialises them
NullSlots(dimWidth, numCts) ==
    AsSeq([col \in 1..dimWidth |->
        [Cts |-> AsSeq([j \in 1..numCts |-> nullCiphertext(1)])]])

\* the inner loop over intArr: Cts[j] = Add(Cts[j], ConstMult(EBits[row], val))
AddSelected(pk, slot, ebit, intArr) ==
    [Cts |-> AsSeq([j \in 1..Len(slot.Cts) |->
                 Add(pk, slot.Cts[j], ConstMult(pk, ebit, intArr[j]))])]

\* addEncryptedSlots with the sum thrown away
addEncryptedSlotsKeepFirst(pk, a, b) == a

\* addEncryptedSlots(pk, a, b): a afterwards
addEncryptedSlots(pk, a, b) ==
    [Cts |-> AsSeq([j \in 1..Len(a.Cts) |->
                 IF j <= Len(b.Cts) THEN Add(pk, a.Cts[j], b.Cts[j]) ELSE a.Cts[j]])]

\* slots after the loop `for i := 1; i < nprocs; i++` has reached worker i
RECURSIVE FoldSlotRes(_, _, _, _)
FoldSlotRes(pk, slotRes, dimWidth, i) ==
    IF i = 0 THEN slotRes[1]
    ELSE LET slots == FoldSlotRes(pk, slotRes, dimWidth, i - 1)
         IN  AsSeq([j \in 1..dimWidth |->
                 addEncryptedSlots(pk, slots[j], slotRes[i + 1][j])])

\* a call of PrivateEncryptedQuery about to start its workers, for databases of
\* the given seeds and slot widths and queries of the given group sizes
PEQCalls(seeds, slotBytes, groupSizes) ==
    /\ \E seed \in seeds, size \in 1..MaxDBSize, numBytes \in slotBytes,
          groupSize \in groupSizes, nprocs \in 1..MaxProcs :
          \E height \in 1..size, db \in {GenerateRandomDB(seed, size, numBytes)} :
             \E dims \in {GetDimentionsForDatabase(db, height, groupSize)} :
                \E index \in 0..(dims[2] - 1) :
                   runSt = [phase |-> "workers", db |-> db,
                            query |-> NewEncryptedQueryWithDimentions(Pk, dims[1], dims[2],
                                                                      groupSize, index, seed),
                            nprocs |-> nprocs,
                            numCts |-> NumCiphertextsPerSlot(db, Pk),
                            numBytesPerCiphertext |-> 0, i |-> 0,
                            w |-> AsSeq([n \in 1..nprocs |->
                                      [pc |-> "none", row |-> 0, col |-> 0, end |-> 0,
                                       sawZero |-> FALSE, slots |-> <<>>]]),
                            result |-> <<>>]
    /\ dpfSt = Idle /\ slotSt = Idle /\ sharedSt = Idle /\ aheSt = Idle /\ aspirSt = Idle /\ auditSt = Idle /\ memSt = Idle /\ kwSt = Idle /\ proofSt = Idle /\ qSt = Idle /\ gridSt = Idle /\ chalSt = Idle /\ rowsSt = Idle /\ bstSt = Idle

PEQInit == PEQCalls(0..1, AHESlotBytes, 1..MaxGroupSize)

\* slotRes[i] = make(...); wg.Add(1); go func(i)
PEQGo ==
    /\ runSt.phase = "workers" /\ runSt.i < runSt.nprocs
    /\ runSt' = [runSt EXCEPT !.w[runSt.i + 1].pc = "start", !.i = @ + 1]
    /\ UNCHANGED <<dpfSt, slotSt, sharedSt, aheSt, aspirSt, auditSt, memSt, kwSt, proofSt, qSt, gridSt, chalSt, rowsSt, bstSt>>

\* worker n - 1 computes its rows and fills its slots with null ciphertexts
PEQStart ==
    /\ runSt.phase = "workers"
    /\ \E n \in 1..runSt.nprocs :
          /\ runSt.w[n].pc = "start"
          /\ LET rows == WorkerRows(n - 1, runSt.nprocs, runSt.query.DBHeight)
                 pos  == NextSlotOf(runSt.db, runSt.query.DBWidth, rows[2], rows[1], 0)
             IN  runSt' = [runSt EXCEPT
                     !.w[n] = [pc |-> IF pos[1] >= rows[2] THEN "done" ELSE "convert",
                               row |-> pos[1], col |-> pos[2], end |-> rows[2],
                               sawZero |-> FALSE,
                               slots |-> NullSlots(runSt.query.DBWidth, runSt.numCts)]]
    /\ UNCHANGED <<dpfSt, slotSt, sharedSt, aheSt, aspirSt, auditSt, memSt, kwSt, proofSt, qSt, gridSt, chalSt, rowsSt, bstSt>>

\* the worker converts its next slot and reads numBytesPerCiphertext
PEQConvert ==
    /\ runSt.phase = "workers"
    /\ \E n \in 1..runSt.nprocs :
          /\ runSt.w[n].pc = "convert"
          /\ runSt' = [runSt EXCEPT
                  !.w[n].pc = "add",
                  !.w[n].sawZero = (runSt.numBytesPerCiphertext = 0)]
    /\ UNCHANGED <<dpfSt, slotSt, sharedSt, aheSt, aspirSt, auditSt, memSt, kwSt, proofSt, qSt, gridSt, chalSt, rowsSt, bstSt>>

\* the worker writes numBytesPerCiphertext if it read 0, adds the selected
\* chunks to its slot and moves to its next slot
PEQAdd ==
    /\ runSt.phase = "workers"
    /\ \E n \in 1..runSt.nprocs :
          /\ runSt.w[n].pc = "add"
          /\ LET me   == runSt.w[n]
                 conv == ToGmpIntArray(runSt.db.Slots[me.row * runSt.query.DBWidth + me.col + 1],
                                       runSt.numCts)
                 pos  == NextSlotOf(runSt.db, runSt.query.DBWidth, me.end, me.row, me.col + 1)
             IN  runSt' = [runSt EXCEPT
                     !.numBytesPerCiphertext = IF me.sawZero THEN conv.numBytesPerInt ELSE @,
                     !.w[n].slots[me.col + 1] =
                         AddSelected(runSt.query.Pk, @, runSt.query.EBits[me.row + 1], conv.ints),
                     !.w[n].row = pos[1], !.w[n].col = pos[2],
                     !.w[n].pc = IF pos[1] >= me.end THEN "done" ELSE "convert"]
    /\ UNCHANGED <<dpfSt, slotSt, sharedSt, aheSt, aspirSt, auditSt, memSt, kwSt, proofSt, qSt, gridSt, chalSt, rowsSt, bstSt>>

\* wg.Wait(), then the workers' slots are added up and returned
PEQReturn ==
    /\ runSt.phase = "workers" /\ runSt.i = runSt.nprocs
    /\ \A n \in 1..runSt.nprocs : runSt.w[n].pc = "done"
    /\ runSt' = [runSt EXCEPT
           !.phase = "returned",
           !.result = [Pk |-> runSt.query.Pk,
                       Slots |-> FoldSlotRes(runSt.query.Pk,
                                             AsSeq([n \in 1..runSt.nprocs |-> runSt.w[n].slots]),
                                             runSt.query.DBWidth, runSt.nprocs - 1),
                       NumBytesPerCiphertext |-> runSt.numBytesPerCiphertext,
                       SlotBytes |-> runSt.db.SlotBytes]]
    /\ UNCHANGED <<dpfSt, slotSt, sharedSt, aheSt, aspirSt, auditSt, memSt, kwSt, proofSt, qSt, gridSt, chalSt, rowsSt, bstSt>>

PEQNext ==
    \/ PEQGo
    \/ PEQStart
    \/ PEQConvert
    \/ PEQAdd
    \/ PEQReturn

SpecPEQ == PEQInit /\ [][PEQNext]_vars

\* C14: worker-count independence of the encrypted query: for every database,
\* encrypted query and nprocs >= 1 (also above the number of rows), under every
\* interleaving of the workers, the decrypted slots and NumBytesPerCiphertext
\* of the result are those of the run with nprocs = 1
C14_WorkerCountIndependence ==
    runSt.phase = "returned" =>
        \E single \in {PrivateEncryptedQuery(runSt.db, runSt.query, 1)} :
            /\ RecoverEncrypted(runSt.result) = RecoverEncrypted(single)
            /\ runSt.result.NumBytesPerCiphertext = single.NumBytesPerCiphertext

\* C14 witness: more workers than rows returned the selected row of three-byte
\* slots, not all zero
C14_Witness ==
    /\ runSt.phase = "returned"
    /\ runSt.nprocs > runSt.query.DBHeight
    /\ runSt.db.SlotBytes = 3
    /\ runSt.result.NumBytesPerCiphertext = 2
    /\ RecoverEncrypted(runSt.result)[1].Data # ZeroBytes(3)
    /\ RecoverEncrypted(runSt.result)[1].Data = runSt.db.Slots[1]


(***************************************************************************)
(* SpecMem: the slots as objects in memory.  A *Slot is an address, the    *)
(* heap maps addresses to Data, db.Slots is a list of addresses, and       *)
(* XorSlots(a, b) writes the object at address a.  Callers hold the        *)
(* addresses of the database slots and of every slot a call returned, and  *)
(* pass them to further calls.                                             *)
(***************************************************************************)
\* XorSlots(a, b) on the heap
XorSlotsAt(heap, a, b) ==
    The({[h EXCEPT ![a] = XorSlots(h[a], h[b])] : h \in {heap}})

\* the heap with n new slots of numBytes zero bytes: &Slot{Data: make([]byte, n)}
Alloc(heap, n, numBytes) ==
    heap \o AsSeq([i \in 1..n |-> ZeroBytes(numBytes)])

\* results[col] taken from the database slots of the first row
ResultSlotsInPlace(dbSlots, heapLen, dimWidth) ==
    AsSeq([col \in 1..dimWidth |->
        IF col <= Len(dbSlots) THEN dbSlots[col] ELSE heapLen + col])

\* results[col]: the addresses of the slots allocated for the result
ResultSlots(dbSlots, heapLen, dimWidth) ==
    AsSeq([col \in 1..dimWidth |-> heapLen + col])

\* the heap after the loops over row and col have passed slotIndex k
RECURSIVE HeapXorRows(_, _, _, _, _, _)
HeapXorRows(heap, dbSlots, results, bits, dimWidth, k) ==
    IF k < 0 THEN heap
    ELSE The({IF bits[(k \div dimWidth) + 1] /\ k < Len(dbSlots)
              THEN XorSlotsAt(h, results[(k % dimWidth) + 1], dbSlots[k + 1])
              ELSE h :
                 h \in {HeapXorRows(heap, dbSlots, results, bits, dimWidth, k - 1)}})

\* PrivateSecretSharedQuery from the bits array on: the heap and the result
HeapPrivateSecretSharedQuery(heap, dbSlots, slotBytes, groupSize, bits) ==
    LET dimHeight == DimHeightOf(Len(dbSlots), groupSize)
        results   == ResultSlots(dbSlots, Len(heap), groupSize)
    IN  [heap |-> HeapXorRows(Alloc(heap, groupSize, slotBytes), dbSlots, results,
                              bits, groupSize, dimHeight * groupSize - 1),
         Shares |-> results]

\* Recover: the heap after shares 1..i have been XORed into res
RECURSIVE HeapRecoverLoop(_, _, _, _, _)
HeapRecoverLoop(heap, resShares, res, i, j) ==
    IF i < 1 THEN heap
    ELSE IF j < 1 THEN HeapRecoverLoop(heap, resShares, res, i - 1, Len(res))
    ELSE XorSlotsAt(HeapRecoverLoop(heap, resShares, res, i, j - 1),
                    res[j], resShares[i][j])

\* Recover(resShares)
HeapRecover(heap, resShares, slotBytes) ==
    LET numSlots == Len(resShares[1])
        res      == AsSeq([j \in 1..numSlots |-> Len(heap) + j])
    IN  [heap |-> HeapRecoverLoop(Alloc(heap, numSlots, slotBytes), resShares, res,
                                  Len(resShares), numSlots),
         res |-> res]

\* AuthTokenSharesForKey(authKey, numShares): the accumulator and the random
\* shares are new slots; shares[0] is the accumulator
HeapAuthTokenSharesForKey(heap, authKey, numShares, r) ==
    LET numBytes    == Len(heap[authKey])
        accumulator == Len(heap) + 1
        shares      == AsSeq([i \in 1..numShares |-> Len(heap) + i])
        tokens      == AuthTokenSharesForKey(ZeroBytes(numBytes), numShares, r)
        filled      == heap \o <<tokens[1]>>
                            \o AsSeq([i \in 1..(numShares - 1) |-> tokens[i + 1]])
    IN  [heap |-> XorSlotsAt(filled, accumulator, authKey), shares |-> shares]

\* GenerateAuditForSharedQuery from the bits array on
HeapGenerateAuditForSharedQuery(heap, dbSlots, slotBytes, groupSize, bits, authToken) ==
    The({IF Len(res.Shares) # 1 THEN [heap |-> res.heap, err |-> TRUE, T |-> 0]
         ELSE [heap |-> XorSlotsAt(res.heap, res.Shares[1], authToken),
               err |-> FALSE, T |-> res.Shares[1]] :
            res \in {HeapPrivateSecretSharedQuery(heap, dbSlots, slotBytes, groupSize, bits)}})

MemInit ==
    /\ \E seed \in 0..1, size \in 1..2 :
          \E db \in {GenerateRandomDB(seed + 1, size, 2)} :
             memSt = [phase |-> "mem", heap |-> db.Slots, prev |-> db.Slots,
                      db |-> [DBSize |-> size, SlotBytes |-> 2,
                              Slots |-> AsSeq([i \in 1..size |-> i]),
                              Keywords |-> AsSeq([i \in 1..size |-> 10 + i])],
                      built |-> db.Slots,
                      keywords |-> AsSeq([i \in 1..size |-> 10 + i]),
                      results |-> <<>>, calls |-> 0, last |-> "build"]
    /\ dpfSt = Idle /\ slotSt = Idle /\ sharedSt = Idle /\ aheSt = Idle /\ aspirSt = Idle /\ auditSt = Idle /\ runSt = Idle /\ kwSt = Idle /\ proofSt = Idle /\ qSt = Idle /\ gridSt = Idle /\ chalSt = Idle /\ rowsSt = Idle /\ bstSt = Idle

MemPrivateSecretSharedQuery ==
    /\ memSt.phase = "mem" /\ memSt.calls < MaxCalls
    /\ \E groupSize \in 1..memSt.db.DBSize :
          \E bits \in [1..DimHeightOf(memSt.db.DBSize, groupSize) -> BOOLEAN] :
             \E res \in {HeapPrivateSecretSharedQuery(memSt.heap, memSt.db.Slots,
                                                      memSt.db.SlotBytes, groupSize, bits)} :
                memSt' = [memSt EXCEPT !.heap = res.heap, !.prev = memSt.heap,
                                       !.results = Append(@, res.Shares),
                                       !.calls = @ + 1,
                                       !.last = "PrivateSecretSharedQuery"]
    /\ UNCHANGED <<dpfSt, slotSt, sharedSt, aheSt, aspirSt, auditSt, runSt, kwSt, proofSt, qSt, gridSt, chalSt, rowsSt, bstSt>>

\* PrivateEncryptedQuery reads the slots through ToGmpIntArray, which copies
\* their bytes into new integers (SetBytes); the result holds ciphertexts
MemPrivateEncryptedQuery ==
    /\ memSt.phase = "mem" /\ memSt.calls < MaxCalls
    /\ memSt' = [memSt EXCEPT !.prev = memSt.heap, !.calls = @ + 1,
                              !.last = "PrivateEncryptedQuery"]
    /\ UNCHANGED <<dpfSt, slotSt, sharedSt, aheSt, aspirSt, auditSt, runSt, kwSt, proofSt, qSt, gridSt, chalSt, rowsSt, bstSt>>

\* PrivateDoublyEncryptedQuery: PrivateEncryptedQuery, then the column query
\* over the ciphertexts of its result
MemPrivateDoublyEncryptedQuery ==
    /\ memSt.phase = "mem" /\ memSt.calls < MaxCalls
    /\ memSt' = [memSt EXCEPT !.prev = memSt.heap, !.calls = @ + 1,
                              !.last = "PrivateDoublyEncryptedQuery"]
    /\ UNCHANGED <<dpfSt, slotSt, sharedSt, aheSt, aspirSt, auditSt, runSt, kwSt, proofSt, qSt, gridSt, chalSt, rowsSt, bstSt>>

\* Recover over one or two results of equal width
MemRecover ==
    /\ memSt.phase = "mem" /\ memSt.calls < MaxCalls
    /\ \E i \in 1..Len(memSt.results), j \in 0..Len(memSt.results) :
          /\ j # 0 => Len(memSt.results[j]) = Len(memSt.results[i])
          /\ \E res \in {HeapRecover(memSt.heap,
                                     IF j = 0 THEN <<memSt.results[i]>>
                                     ELSE <<memSt.results[i], memSt.results[j]>>,
                                     memSt.db.SlotBytes)} :
                memSt' = [memSt EXCEPT !.heap = res.heap, !.prev = memSt.heap,
                                       !.results = Append(@, res.res),
                                       !.calls = @ + 1, !.last = "Recover"]
    /\ UNCHANGED <<dpfSt, slotSt, sharedSt, aheSt, aspirSt, auditSt, runSt, kwSt, proofSt, qSt, gridSt, chalSt, rowsSt, bstSt>>

\* AuthTokenSharesForKey with any slot the caller holds as authKey
MemAuthTokenSharesForKey ==
    /\ memSt.phase = "mem" /\ memSt.calls < MaxCalls
    /\ \E authKey \in 1..Len(memSt.heap), numShares \in 1..2, r \in 0..1 :
          \E res \in {HeapAuthTokenSharesForKey(memSt.heap, authKey, numShares, r)} :
             memSt' = [memSt EXCEPT !.heap = res.heap, !.prev = memSt.heap,
                                    !.results = Append(@, res.shares),
                                    !.calls = @ + 1, !.last = "AuthTokenSharesForKey"]
    /\ UNCHANGED <<dpfSt, slotSt, sharedSt, aheSt, aspirSt, auditSt, runSt, kwSt, proofSt, qSt, gridSt, chalSt, rowsSt, bstSt>>

\* GenerateAuditForSharedQuery with any slot the caller holds as authToken.T
MemGenerateAuditForSharedQuery ==
    /\ memSt.phase = "mem" /\ memSt.calls < MaxCalls
    /\ \E groupSize \in 1..memSt.db.DBSize, authToken \in 1..Len(memSt.heap) :
          \E bits \in [1..DimHeightOf(memSt.db.DBSize, groupSize) -> BOOLEAN] :
             \E res \in {HeapGenerateAuditForSharedQuery(memSt.heap, memSt.db.Slots,
                             memSt.db.SlotBytes, groupSize, bits, authToken)} :
                memSt' = [memSt EXCEPT
                            !.heap = res.heap, !.prev = memSt.heap,
                            !.results = IF res.err THEN @ ELSE Append(@, <<res.T>>),
                            !.calls = @ + 1, !.last = "GenerateAuditForSharedQuery"]
    /\ UNCHANGED <<dpfSt, slotSt, sharedSt, aheSt, aspirSt, auditSt, runSt, kwSt, proofSt, qSt, gridSt, chalSt, rowsSt, bstSt>>

MemNext ==
    \/ MemPrivateSecretSharedQuery
    \/ MemPrivateEncryptedQuery
    \/ MemPrivateDoublyEncryptedQuery
    \/ MemRecover
    \/ MemAuthTokenSharesForKey
    \/ MemGenerateAuditForSharedQuery

SpecMem == MemInit /\ [][MemNext]_vars

\* C15: database immutability: after the database is built, no sequence of
\* PrivateSecretSharedQuery, PrivateEncryptedQuery, PrivateDoublyEncryptedQuery,
\* Recover, AuthTokenSharesForKey and GenerateAuditForSharedQuery calls changes a
\* byte of a database slot or a keyword, and a call writes only slots it
\* allocated itself: every slot that existed before the call is as it was
C15_DatabaseImmutable ==
    memSt.phase = "mem" =>
        /\ \A i \in 1..memSt.db.DBSize : memSt.heap[memSt.db.Slots[i]] = memSt.built[i]
        /\ memSt.db.Keywords = memSt.keywords
        /\ \A a \in 1..Len(memSt.prev) : memSt.heap[a] = memSt.prev[a]

\* C15 witness: after three calls, the last an audit whose token is a slot an
\* earlier call returned, and which selected a non-zero database slot
C15_Witness ==
    /\ memSt.phase = "mem"
    /\ memSt.calls = 3
    /\ memSt.last = "GenerateAuditForSharedQuery"
    /\ Len(memSt.heap) > Len(memSt.prev)
    /\ \E a \in (memSt.db.DBSize + 1)..Len(memSt.prev) :
          /\ memSt.heap[a] # ZeroBytes(2)
          /\ memSt.heap[Len(memSt.heap)] = XorSlots(memSt.heap[1], memSt.heap[a])
    /\ memSt.heap[1] # ZeroBytes(2)


(***************************************************************************)
(* keyword.go, keyword_test.go: the sqrt search tree.  A string is the     *)
(* sequence of its bytes.                                                  *)
(***************************************************************************)
\* bytes.Compare(a, b), also the order of Go strings: -1, 0 or 1
RECURSIVE BytesCompare(_, _)
BytesCompare(a, b) ==
    IF Len(a) = 0 \/ Len(b) = 0
    THEN (IF Len(a) = Len(b) THEN 0 ELSE IF Len(a) = 0 THEN -1 ELSE 1)
    ELSE IF a[1] < b[1] THEN -1
    ELSE IF a[1] > b[1] THEN 1
    ELSE BytesCompare(Tail(a), Tail(b))

\* slot.Compare(other)
Compare(slot, other) == BytesCompare(slot, other)

\* GetRequiredSlotSize(data): the length of the longest string
RECURSIVE GetRequiredSlotSize(_)
GetRequiredSlotSize(data) ==
    IF Len(data) = 0 THEN 0 ELSE Max(Len(Head(data)), GetRequiredSlotSize(Tail(data)))

\* NewSlotFromString(s, slotSize): s with zeros appended up to slotSize
NewSlotFromString(str, slotSize) ==
    str \o ZeroBytes(Max(0, slotSize - Len(str)))

\* db.BuildForDataWithSlotSize(data, slotSize): copy() cuts a longer string
BuildForDataWithSlotSize(data, slotSize) ==
    [DBSize |-> Len(data), SlotBytes |-> slotSize,
     Slots |-> AsSeq([i \in 1..Len(data) |->
                  AsSeq([j \in 1..slotSize |->
                      IF j <= Len(data[i]) THEN data[i][j] ELSE 0])])]

\* the data is sorted
Sorted(data) ==
    \A i \in 1..(Len(data) - 1) : BytesCompare(data[i], data[i + 1]) <= 0

\* int(math.Sqrt(float64(n)))
RECURSIVE FloorSqrtFrom(_, _)
FloorSqrtFrom(n, r) == IF (r + 1) * (r + 1) > n THEN r ELSE FloorSqrtFrom(n, r + 1)

\* the boundaries taken from the last string of every row
FirstLayerOfRowEnds(data, sqrtDim) ==
    AsSeq([k \in 1..sqrtDim |-> data[k * sqrtDim]])

\* firstLayeBoundries: data[sqrtDim], data[2*sqrtDim], ... below len(data), and
\* the last string
FirstLayerOf(data, sqrtDim) ==
    AsSeq([k \in 1..CeilDiv(Len(data), sqrtDim) |->
        IF k * sqrtDim < Len(data) THEN data[k * sqrtDim + 1] ELSE data[Len(data)]])

\* const padding = "x"
padding == <<120>>

\* int(math.Pow(2, math.Ceil(math.Log2(float64(n))))) for n >= 1
RECURSIVE NextPowerFrom(_, _)
NextPowerFrom(n, p) == IF p >= n THEN p ELSE NextPowerFrom(n, 2 * p)

\* PadToPowerOf2(data)
PadToPowerOf2(data) ==
    AsSeq([i \in 1..NextPowerFrom(Len(data), 1) |->
        IF i <= Len(data) THEN data[i] ELSE padding])

\* math.Sqrt(float64(n)) != math.Floor(math.Sqrt(float64(n)))
NoIntegerSqrt(n) == FloorSqrtFrom(n, 0) * FloorSqrtFrom(n, 0) # n

\* sqst.BuildForData(data)
BuildForData(data) ==
    IF ~Sorted(data) THEN [err |-> TRUE]
    ELSE LET padded  == IF NoIntegerSqrt(Len(data)) THEN PadToPowerOf2(data) ELSE data
             sqrtDim == FloorSqrtFrom(Len(padded), 0)
             first   == FirstLayerOf(padded, sqrtDim)
         IN  [err |-> FALSE, FirstLayer |-> first,
              SecondLayer |-> BuildForDataWithSlotSize(padded, GetRequiredSlotSize(padded)),
              SlotBytes |-> GetRequiredSlotSize(first), NumKeys |-> Len(padded),
              Width |-> sqrtDim, Height |-> sqrtDim]

\* for rowIndex, boundry = range FirstLayer { if str < boundry { break } }
RECURSIVE RowIndexOf(_, _, _)
RowIndexOf(FirstLayer, str, k) ==
    IF k + 1 >= Len(FirstLayer) THEN k
    ELSE IF BytesCompare(str, FirstLayer[k + 1]) < 0 THEN k
    ELSE RowIndexOf(FirstLayer, str, k + 1)

\* for colIndex, slot = range res { if slot.Compare(query) >= 0 { break } }
RECURSIVE ColIndexOf(_, _, _)
ColIndexOf(res, query, k) ==
    IF k + 1 >= Len(res) THEN k
    ELSE IF Compare(res[k + 1], query) >= 0 THEN k
    ELSE ColIndexOf(res, query, k + 1)

\* the loop body of TestKeywordQuerySqrtST for data[i]: the row, the recovered
\* slots, the column and the index
KeywordQuery(sqst, str, r, nprocs) ==
    The({IF q.panic THEN [panic |-> TRUE]
         ELSE The({The({The({[panic |-> FALSE, rowIndex |-> rowIndex, res |-> res,
                              colIndex |-> colIndex,
                              index |-> rowIndex * sqst.Width + colIndex] :
                                colIndex \in {ColIndexOf(res, query, 0)}}) :
                           res \in {Recover(<<resA, resB>>)}}) :
                      resA \in {PrivateSecretSharedQuery(sqst.SecondLayer, q.shares[1], nprocs)},
                      resB \in {PrivateSecretSharedQuery(sqst.SecondLayer, q.shares[2], nprocs)}}) :
            rowIndex \in {RowIndexOf(sqst.FirstLayer, str, 0)},
            query \in {NewSlotFromString(str, sqst.SlotBytes)},
            q \in {newQueryShares(sqst.SecondLayer, RowIndexOf(sqst.FirstLayer, str, 0),
                                  sqst.Height, 2, r)}})

\* the strings the data is drawn from: "a", "ab", "b", "ba"
KeyStrings == {<<1>>, <<1, 2>>, <<2>>, <<2, 1>>}

KwInit ==
    /\ \E sigma \in 1..MaxSigma :
          \E data \in [1..(sigma * sigma) -> KeyStrings] :
             /\ Sorted(data)
             /\ kwSt = [phase |-> "data", data |-> AsSeq(data), sqst |-> <<>>,
                        i |-> 0, answer |-> <<>>]
    /\ dpfSt = Idle /\ slotSt = Idle /\ sharedSt = Idle /\ aheSt = Idle /\ aspirSt = Idle /\ auditSt = Idle /\ runSt = Idle /\ memSt = Idle /\ proofSt = Idle /\ qSt = Idle /\ gridSt = Idle /\ chalSt = Idle /\ rowsSt = Idle /\ bstSt = Idle

KwBuildForData ==
    /\ kwSt.phase = "data"
    /\ kwSt' = [kwSt EXCEPT !.phase = "built", !.sqst = BuildForData(kwSt.data)]
    /\ UNCHANGED <<dpfSt, slotSt, sharedSt, aheSt, aspirSt, auditSt, runSt, memSt, proofSt, qSt, gridSt, chalSt, rowsSt, bstSt>>

\* the client looks up data[i] with a two-share query
KwKeywordQuery ==
    /\ kwSt.phase = "built" /\ ~kwSt.sqst.err
    /\ \E i \in 0..(Len(kwSt.data) - 1), r \in 0..1, nprocs \in 1..MaxProcs :
          \E answer \in {KeywordQuery(kwSt.sqst, kwSt.data[i + 1], r, nprocs)} :
             kwSt' = [kwSt EXCEPT !.phase = IF answer.panic THEN "panicked" ELSE "answered",
                                  !.i = i, !.answer = answer]
    /\ UNCHANGED <<dpfSt, slotSt, sharedSt, aheSt, aspirSt, auditSt, runSt, memSt, proofSt, qSt, gridSt, chalSt, rowsSt, bstSt>>

KwNext ==
    \/ KwBuildForData
    \/ KwKeywordQuery

SpecKeyword == KwInit /\ [][KwNext]_vars

Sum256(hashData) == [sha256 |-> hashData]

\* hashData after the loop over values[i..]: values[0] is skipped
RECURSIVE HashDataOf(_, _)
HashDataOf(values, i) ==
    IF i > Len(values) THEN <<>>
    ELSE IF i - 1 = 0 THEN HashDataOf(values, i + 1)
    ELSE values[i] \o HashDataOf(values, i + 1)

\* RandomOracleDigest(values...); a gmp.Int is kept as its Bytes()
RandomOracleDigest(values) == Sum256(HashDataOf(values, 1))

\* Commit(value) with the bytes rBytes read from rand
Commit(value, rBytes) ==
    [HashBytes |-> RandomOracleDigest(<<value, SetBytes(rBytes)>>), R |-> SetBytes(rBytes)]

\* c.CheckOpen(value)
CheckOpen(c, value) == RandomOracleDigest(<<value, c.R>>) = c.HashBytes

\* the values committed to and opened with, and the bytes rand.Read gives
CommitValues == {IntOf(n) : n \in {0, 1, 2, 255, 256, 513}}

CommitRandBytes == {<<a, b>> : a \in {0, 1, 2}, b \in {0, 1, 2}}

CommitInit ==
    /\ \E value \in CommitValues :
          proofSt = [phase |-> "value", value |-> value, c |-> <<>>,
                     opened |-> <<>>, ok |-> FALSE]
    /\ dpfSt = Idle /\ slotSt = Idle /\ sharedSt = Idle /\ aheSt = Idle /\ aspirSt = Idle /\ auditSt = Idle /\ runSt = Idle /\ memSt = Idle /\ kwSt = Idle /\ qSt = Idle /\ gridSt = Idle /\ chalSt = Idle /\ rowsSt = Idle /\ bstSt = Idle

CommitCommit ==
    /\ proofSt.phase = "value"
    /\ \E rBytes \in CommitRandBytes :
          proofSt' = [proofSt EXCEPT !.phase = "committed",
                                     !.c = Commit(proofSt.value, rBytes)]
    /\ UNCHANGED <<dpfSt, slotSt, sharedSt, aheSt, aspirSt, auditSt, runSt, memSt, kwSt, qSt, gridSt, chalSt, rowsSt, bstSt>>

CommitCheckOpen ==
    /\ proofSt.phase = "committed"
    /\ \E value \in CommitValues :
          proofSt' = [proofSt EXCEPT !.phase = "opened", !.opened = value,
                                     !.ok = CheckOpen(proofSt.c, value)]
    /\ UNCHANGED <<dpfSt, slotSt, sharedSt, aheSt, aspirSt, auditSt, runSt, memSt, kwSt, qSt, gridSt, chalSt, rowsSt, bstSt>>

CommitNext ==
    \/ CommitCommit
    \/ CommitCheckOpen

SpecCommit == CommitInit /\ [][CommitNext]_vars

\* C19: commitment opening: for c = Commit(v), c.CheckOpen(v') returns true
\* when v' = v and false for every v' # v
C19_CommitmentOpening ==
    proofSt.phase = "opened" => (proofSt.ok <=> proofSt.opened = proofSt.value)


(***************************************************************************)
(* SpecProof: AuthProve and AuthCheck of the two-query revision on any     *)
(* pair of challenge tokens.  The client has committed to an AuthToken per *)
(* branch and reveals one with its proof; it may alter the proof token     *)
(* before the server checks it.                                            *)
(***************************************************************************)
\* the level-two ciphertexts a challenge token may be: around the ring element
\* 0, around encryptions of 0 and around encryptions of 1
ChalCts ==
    {Ct(Pk, p, r, 2) :
        p \in {0} \cup {1 + m * RndMod + r1 : m \in {0, 1}, r1 \in {0, 1}},
        r \in {0, 1}}

\* the AuthToken values the client commits to
AuthTokenValues == {IntOf(0), IntOf(5)}

\* the revealed AuthToken is the committed one of the proven branch
Opens(tokens, proofToken, revealed) == revealed = tokens[proofToken.QBit + 1]

ProofInit ==
    /\ \E Token0 \in ChalCts, Token1 \in ChalCts, bit \in 0..1,
          v0 \in AuthTokenValues, v1 \in AuthTokenValues :
          proofSt = [phase |-> "chal", chal |-> [Token0 |-> Token0, Token1 |-> Token1],
                     bit |-> bit, tokens |-> <<v0, v1>>,
                     comm |-> <<Commit(v0, <<1, 2>>), Commit(v1, <<2, 1>>)>>,
                     decTok0 |-> IntZero, decTok1 |-> IntZero,
                     proof |-> <<>>, revealed |-> IntZero, altered |-> "no",
                     accepted |-> FALSE]
    /\ dpfSt = Idle /\ slotSt = Idle /\ sharedSt = Idle /\ aheSt = Idle /\ aspirSt = Idle /\ auditSt = Idle /\ runSt = Idle /\ memSt = Idle /\ kwSt = Idle /\ qSt = Idle /\ gridSt = Idle /\ chalSt = Idle /\ rowsSt = Idle /\ bstSt = Idle

\* AuthProve(sk, bit, chalToken); the client reveals the AuthToken of the
\* branch it proves
ProofAuthProve ==
    /\ proofSt.phase = "chal"
    /\ \E junk \in InvalidPlain, a \in 1..2, b \in 1..2 :
          \E res \in {AuthProveTwo(Pk, proofSt.bit, proofSt.chal, a, b, junk)} :
             proofSt' = [proofSt EXCEPT
                 !.phase = IF res.err THEN "proveError" ELSE "proof",
                 !.decTok0 = NestedDecrypt(Pk, proofSt.chal.Token0, junk),
                 !.decTok1 = NestedDecrypt(Pk, proofSt.chal.Token1, junk),
                 !.proof = IF res.err THEN <<>> ELSE res.proof,
                 !.revealed = IF res.err THEN IntZero
                              ELSE proofSt.tokens[res.proof.QBit + 1]]
    /\ UNCHANGED <<dpfSt, slotSt, sharedSt, aheSt, aspirSt, auditSt, runSt, memSt, kwSt, qSt, gridSt, chalSt, rowsSt, bstSt>>

\* the client sends a proof token with one part replaced
ProofAlter ==
    /\ proofSt.phase = "proof" /\ proofSt.altered = "no"
    /\ \/ \E x \in 0..2 :
             proofSt' = [proofSt EXCEPT !.altered = "R", !.proof.R = IntOf(x)]
       \/ \E x \in 0..2 :
             proofSt' = [proofSt EXCEPT !.altered = "S", !.proof.S = IntOf(x)]
       \/ \E ct \in ChalCts :
             proofSt' = [proofSt EXCEPT !.altered = "T", !.proof.T = ct]
       \/ \E ct \in ChalCts, a \in 1..2, b \in 1..2 :
             proofSt' = [proofSt EXCEPT
                 !.altered = "P",
                 !.proof.P = ProveDDLEQ(Pk, ct, proofSt.proof.T, a, b)]
       \/ proofSt' = [proofSt EXCEPT !.altered = "QBit", !.proof.QBit = 1 - @]
       \/ \E v \in AuthTokenValues :
             proofSt' = [proofSt EXCEPT !.altered = "AuthToken", !.revealed = v]
    /\ UNCHANGED <<dpfSt, slotSt, sharedSt, aheSt, aspirSt, auditSt, runSt, memSt, kwSt, qSt, gridSt, chalSt, rowsSt, bstSt>>

\* AuthCheck(pk, chalToken, proofToken)
ProofAuthCheck ==
    /\ proofSt.phase = "proof"
    /\ proofSt' = [proofSt EXCEPT
           !.phase = "checked",
           !.accepted = AuthCheckTwo(Pk, proofSt.chal, proofSt.proof)]
    /\ UNCHANGED <<dpfSt, slotSt, sharedSt, aheSt, aspirSt, auditSt, runSt, memSt, kwSt, qSt, gridSt, chalSt, rowsSt, bstSt>>

ProofNext ==
    \/ ProofAuthProve
    \/ ProofAlter
    \/ ProofAuthCheck

SpecProof == ProofInit /\ [][ProofNext]_vars

\* C17: ASPIR prover branch selection: AuthProve returns the server-cheating
\* error and no proof exactly when both challenge tokens decrypt to non-zero;
\* otherwise it returns a proof whose QBit designates a token that decrypts to
\* zero: the client's recorded bit when both do, the one zero branch when one does
C17_ProverBranch ==
    (proofSt.phase \in {"proveError", "proof"} /\ proofSt.altered = "no") =>
        /\ proofSt.phase = "proveError"
              <=> (proofSt.decTok0 # IntZero /\ proofSt.decTok1 # IntZero)
        /\ proofSt.phase = "proof" =>
              /\ proofSt.proof.QBit \in {0, 1}
              /\ (IF proofSt.proof.QBit = 0 THEN proofSt.decTok0 ELSE proofSt.decTok1)
                     = IntZero
              /\ (proofSt.decTok0 = IntZero /\ proofSt.decTok1 = IntZero)
                     => proofSt.proof.QBit = proofSt.bit

\* C17 witness: the client recorded branch 0, whose token decrypts to non-zero
\* while the other decrypts to zero, and the proof is for branch 1
C17_Witness ==
    /\ proofSt.phase = "proof" /\ proofSt.altered = "no"
    /\ proofSt.bit = 0
    /\ proofSt.decTok0 # IntZero /\ proofSt.decTok1 = IntZero
    /\ proofSt.proof.QBit = 1
    /\ DecryptNestedCiphertextLayer(Pk, proofSt.chal.Token0).C # IntZero

\* C18: ASPIR verification: AuthCheck returns true if and only if all three
\* checks pass: the revealed AuthToken of the proven branch opens the client's
\* commitment, the DDLEQ proof relating the branch's challenge token and ct2
\* verifies, and ct2 is the nested encryption of zero rebuilt from r and s
C18_VerifyIff ==
    proofSt.phase = "checked" =>
        (proofSt.accepted <=>
            /\ Opens(proofSt.tokens, proofSt.proof, proofSt.revealed)
            /\ VerifyDDLEQProof(Pk, IF proofSt.proof.QBit = 0 THEN proofSt.chal.Token0
                                    ELSE proofSt.chal.Token1,
                                proofSt.proof.T, proofSt.proof.P)
            /\ EncryptWithRAtLevel(Pk, EncryptWithRAtLevel(Pk, IntZero, proofSt.proof.R, 1).C,
                                   proofSt.proof.S, 2).C = proofSt.proof.T.C)


(***************************************************************************)
(* SpecQuery: the query constructors of query.go applied to targets in and *)
(* around their domains.                                                   *)
(***************************************************************************)
QInit ==
    /\ \E size \in 1..MaxDBSize :
          qSt = [phase |-> "dbmd", dbmd |-> [SlotBytes |-> 2, DBSize |-> size],
                 kind |-> "", target |-> 0, domain |-> 0, query |-> <<>>]
    /\ dpfSt = Idle /\ slotSt = Idle /\ sharedSt = Idle /\ aheSt = Idle /\ aspirSt = Idle /\ auditSt = Idle /\ runSt = Idle /\ memSt = Idle /\ kwSt = Idle /\ proofSt = Idle /\ gridSt = Idle /\ chalSt = Idle /\ rowsSt = Idle /\ bstSt = Idle

\* how newQueryShares ends: the panic for a database without rows, the panic
\* "requesting key outside of domain", or the shares
QPhase(q, dimHeight) ==
    IF dimHeight = 0 THEN "heightZero" ELSE IF q.panic THEN "panicked" ELSE "query"

\* NewIndexQueryShares(index, groupSize, numShares)
QNewIndexQueryShares ==
    /\ qSt.phase = "dbmd"
    /\ \E groupSize \in 1..2, numShares \in 2..3, r \in 0..1 :
          \E index \in (-1)..(DimHeightOf(qSt.dbmd.DBSize, groupSize) + 1) :
             \E q \in {newQueryShares(qSt.dbmd, index, groupSize, numShares, r)} :
                qSt' = [qSt EXCEPT !.phase = QPhase(q, DimHeightOf(qSt.dbmd.DBSize, groupSize)),
                                   !.kind = "index", !.target = index,
                                   !.domain = DimHeightOf(qSt.dbmd.DBSize, groupSize),
                                   !.query = q.shares]
    /\ UNCHANGED <<dpfSt, slotSt, sharedSt, aheSt, aspirSt, auditSt, runSt, memSt, kwSt, proofSt, gridSt, chalSt, rowsSt, bstSt>>

\* NewKeywordQueryShares(keyword, groupSize, 2)
QNewKeywordQueryShares ==
    /\ qSt.phase = "dbmd"
    /\ \E groupSize \in 1..2, r \in 0..1, keyword \in {-1, 0, 1, 2, 5, 70000} :
          \E q \in {NewKeywordQueryShares(qSt.dbmd, keyword, groupSize, 2, r)} :
             qSt' = [qSt EXCEPT !.phase = QPhase(q, DimHeightOf(qSt.dbmd.DBSize, groupSize)),
                                !.kind = "keyword", !.target = keyword,
                                !.domain = DimHeightOf(qSt.dbmd.DBSize, groupSize),
                                !.query = q.shares]
    /\ UNCHANGED <<dpfSt, slotSt, sharedSt, aheSt, aspirSt, auditSt, runSt, memSt, kwSt, proofSt, gridSt, chalSt, rowsSt, bstSt>>

\* NewEncryptedQueryWithDimentions: the rows are the selectable positions
QNewEncryptedQueryWithDimentions ==
    /\ qSt.phase = "dbmd"
    /\ \E groupSize \in 1..MaxGroupSize, height \in 1..qSt.dbmd.DBSize, r \in 0..1 :
          \E dims \in {GetDimentionsForDatabase(qSt.dbmd, height, groupSize)} :
             \E index \in (-1)..(dims[2] + 1) :
                qSt' = [qSt EXCEPT
                    !.phase = "query", !.kind = "encrypted", !.target = index,
                    !.domain = dims[2],
                    !.query = NewEncryptedQueryWithDimentions(Pk, dims[1], dims[2],
                                                              groupSize, index, r)]
    /\ UNCHANGED <<dpfSt, slotSt, sharedSt, aheSt, aspirSt, auditSt, runSt, memSt, kwSt, proofSt, gridSt, chalSt, rowsSt, bstSt>>

\* NewDoublyEncryptedQueryWithDimentions: the cells of the grid are the
\* selectable positions, and index -1 asks for the null query
QNewDoublyEncryptedQueryWithDimentions ==
    /\ qSt.phase = "dbmd"
    /\ \E groupSize \in 1..MaxGroupSize, height \in 1..qSt.dbmd.DBSize, r \in 0..1 :
          \E dims \in {GetDimentionsForDatabase(qSt.dbmd, height, groupSize)} :
             \E index \in (-2)..(dims[1] * dims[2] + 1) :
                qSt' = [qSt EXCEPT
                    !.phase = "query", !.kind = "doubly", !.target = index,
                    !.domain = dims[1] * dims[2],
                    !.query = NewDoublyEncryptedQueryWithDimentions(Pk, dims[1], dims[2],
                                                                    groupSize, index, r)]
    /\ UNCHANGED <<dpfSt, slotSt, sharedSt, aheSt, aspirSt, auditSt, runSt, memSt, kwSt, proofSt, gridSt, chalSt, rowsSt, bstSt>>

QNext ==
    \/ QNewIndexQueryShares
    \/ QNewKeywordQueryShares
    \/ QNewEncryptedQueryWithDimentions
    \/ QNewDoublyEncryptedQueryWithDimentions

SpecQuery == QInit /\ [][QNext]_vars

\* the target lies in the domain of the query kind; every keyword a model
\* integer can hold is below 2^32, and index -1 selects nothing (a null query)
InDomain(kind, target, domain) ==
    CASE kind = "index"     -> 0 <= target /\ target < domain
      [] kind = "keyword"   -> 0 <= target
      [] kind = "encrypted" -> target = -1 \/ (0 <= target /\ target < domain)
      [] kind = "doubly"    -> target = -1 \/ (0 <= target /\ target < domain)

\* C20: domain check at query construction: construction fails exactly when the
\* target lies outside the query's domain: an index outside [0, dimHeight), a
\* keyword outside [0, 2^32), an encrypted or doubly encrypted index outside
\* the selectable positions (the null query apart); every in-domain target,
\* every 32-bit keyword included, is accepted
C20_DomainCheck ==
    qSt.phase \in {"query", "panicked"} =>
        (qSt.phase = "panicked" <=> ~InDomain(qSt.kind, qSt.target, qSt.domain))


(***************************************************************************)
(* SpecGrid: the grid of GetDimentionsForDatabase for every database size, *)
(* requested height and group size, and the coordinates of every slot.     *)
(***************************************************************************)
GridInit ==
    /\ \E size \in 1..MaxGridDBSize, slotBytes \in {2, 3} :
          gridSt = [phase |-> "dbmd", dbmd |-> [SlotBytes |-> slotBytes, DBSize |-> size],
                    height |-> 0, groupSize |-> 0, dimWidth |-> 0, dimHeight |-> 0,
                    index |-> 0, row |-> 0, col |-> 0]
    /\ dpfSt = Idle /\ slotSt = Idle /\ sharedSt = Idle /\ aheSt = Idle /\ aspirSt = Idle /\ auditSt = Idle /\ runSt = Idle /\ memSt = Idle /\ kwSt = Idle /\ proofSt = Idle /\ qSt = Idle /\ chalSt = Idle /\ rowsSt = Idle /\ bstSt = Idle

\* dbmd.GetDimentionsForDatabase(height, groupSize)
GridGetDimentionsForDatabase ==
    /\ gridSt.phase = "dbmd"
    /\ \E height \in 1..gridSt.dbmd.DBSize, groupSize \in 1..MaxGroupSize :
          \E dims \in {GetDimentionsForDatabase(gridSt.dbmd, height, groupSize)} :
             gridSt' = [gridSt EXCEPT !.phase = "dims", !.height = height,
                                      !.groupSize = groupSize,
                                      !.dimWidth = dims[1], !.dimHeight = dims[2]]
    /\ UNCHANGED <<dpfSt, slotSt, sharedSt, aheSt, aspirSt, auditSt, runSt, memSt, kwSt, proofSt, qSt, chalSt, rowsSt, bstSt>>

\* dbmd.IndexToCoordinates(index, width, height) for a slot of the database
GridIndexToCoordinates ==
    /\ gridSt.phase = "dims"
    /\ \E index \in 0..(gridSt.dbmd.DBSize - 1) :
          \E rc \in {IndexToCoordinates(index, gridSt.dimWidth, gridSt.dimHeight)} :
             gridSt' = [gridSt EXCEPT !.phase = "coords", !.index = index,
                                      !.row = rc[1], !.col = rc[2]]
    /\ UNCHANGED <<dpfSt, slotSt, sharedSt, aheSt, aspirSt, auditSt, runSt, memSt, kwSt, proofSt, qSt, chalSt, rowsSt, bstSt>>

GridNext ==
    \/ GridGetDimentionsForDatabase
    \/ GridIndexToCoordinates

SpecGrid == GridInit /\ [][GridNext]_vars

\* C21: grid coverage: for every DBSize >= 1, requested height in [1, DBSize]
\* and groupSize >= 1 the returned grid has height * width >= DBSize, and
\* every slot index in [0, DBSize) is row * width + col for a row below the
\* height and a column below the width
C21_GridCoverage ==
    /\ gridSt.phase \in {"dims", "coords"} =>
          gridSt.dimHeight * gridSt.dimWidth >= gridSt.dbmd.DBSize
    /\ gridSt.phase = "coords" =>
          /\ gridSt.row < gridSt.dimHeight /\ gridSt.col < gridSt.dimWidth
          /\ gridSt.row * gridSt.dimWidth + gridSt.col = gridSt.index


(***************************************************************************)
(* SpecChal: the servers' challenge step of the three ASPIR variants on    *)
(* key databases and queries whose result need not be one slot of one      *)
(* ciphertext (group sizes above 1, keys wider than one ciphertext).       *)
(***************************************************************************)
\* the key widths: one ciphertext per key, and two
ChalSlotBytes == {2, 3}

\* len(res.Slots) == 1 && len(res.Slots[0].Cts) == 1 for a result res
OneSlotOneCt(res) == Len(res.Slots) = 1 /\ Len(res.Slots[1].Cts) = 1

ChalInit ==
    /\ \E seed \in 0..1, size \in 1..MaxDBSize, numBytes \in ChalSlotBytes :
          chalSt = [phase |-> "keydb", keyDB |-> GenerateRandomDB(seed, size, numBytes),
                    kind |-> "", groupSize |-> 0, queried |-> FALSE, shapeOk |-> FALSE,
                    err |-> FALSE, panic |-> FALSE, token |-> <<>>]
    /\ dpfSt = Idle /\ slotSt = Idle /\ sharedSt = Idle /\ aheSt = Idle /\ aspirSt = Idle /\ auditSt = Idle /\ runSt = Idle /\ memSt = Idle /\ kwSt = Idle /\ proofSt = Idle /\ qSt = Idle /\ gridSt = Idle /\ rowsSt = Idle /\ bstSt = Idle

\* AuthChalForQuery of the single-query revision on a client's query
ChalAuthChalForQuery ==
    /\ chalSt.phase = "keydb"
    /\ \E groupSize \in 1..MaxGroupSize, index \in 0..(chalSt.keyDB.DBSize - 1),
          nprocs \in 1..MaxProcs :
          \E query \in {NewDoublyEncryptedQuery(chalSt.keyDB, Pk, groupSize, index, 0)},
             authToken \in {AuthTokenForKey(Pk, chalSt.keyDB.Slots[index + 1], 0)} :
             \E res \in {PrivateDoublyEncryptedQuery(chalSt.keyDB, query, nprocs)},
                chal \in {AuthChalForQuery(chalSt.keyDB, query, authToken, nprocs)} :
                chalSt' = [chalSt EXCEPT
                    !.phase = "challenged", !.kind = "single", !.groupSize = groupSize,
                    !.queried = ~res.err /\ ~res.panic,
                    !.shapeOk = ~res.err /\ ~res.panic /\ OneSlotOneCt(res),
                    !.err = chal.err, !.panic = chal.panic,
                    !.token = IF chal.err \/ chal.panic THEN <<>> ELSE chal.T]
    /\ UNCHANGED <<dpfSt, slotSt, sharedSt, aheSt, aspirSt, auditSt, runSt, memSt, kwSt, proofSt, qSt, gridSt, rowsSt, bstSt>>

\* AuthChalForQuery of the two-query revision on a client's query
ChalAuthChalForQueryTwo ==
    /\ chalSt.phase = "keydb"
    /\ \E groupSize \in 1..MaxGroupSize, index \in 0..(chalSt.keyDB.DBSize - 1),
          bit \in 0..1, nprocs \in 1..MaxProcs :
          \E query \in {GenerateAuthenticatedQuery(chalSt.keyDB, Pk, groupSize, index,
                                                   chalSt.keyDB.Slots[index + 1], 0, bit)[1]} :
             \E res0 \in {KeyQueryResult(chalSt.keyDB, query.Query0, nprocs)},
                res1 \in {KeyQueryResult(chalSt.keyDB, query.Query1, nprocs)},
                chal \in {AuthChalForQueryTwo(chalSt.keyDB, query, nprocs)} :
                chalSt' = [chalSt EXCEPT
                    !.phase = "challenged", !.kind = "two", !.groupSize = groupSize,
                    !.queried = ~res0.panic /\ ~res1.panic,
                    !.shapeOk = /\ ~res0.panic /\ ~res1.panic
                                /\ OneSlotOneCt(res0) /\ OneSlotOneCt(res1),
                    !.err = FALSE, !.panic = chal.panic,
                    !.token = IF chal.panic THEN <<>>
                              ELSE <<chal.Token0, chal.Token1>>]
    /\ UNCHANGED <<dpfSt, slotSt, sharedSt, aheSt, aspirSt, auditSt, runSt, memSt, kwSt, proofSt, qSt, gridSt, rowsSt, bstSt>>

\* GenerateAuditForSharedQuery on one share of a client's index query
ChalGenerateAuditForSharedQuery ==
    /\ chalSt.phase = "keydb"
    /\ \E groupSize \in 1..MaxGroupSize, n \in 1..2, nprocs \in 1..MaxProcs :
          /\ DimHeightOf(chalSt.keyDB.DBSize, groupSize) > 0
          /\ \E index \in 0..(DimHeightOf(chalSt.keyDB.DBSize, groupSize) - 1) :
                \E shares \in {newQueryShares(chalSt.keyDB, index, groupSize, 2, 0).shares},
                   tokens \in {AuthTokenSharesForKey(chalSt.keyDB.Slots[1], 2, 0)} :
                   \E res \in {PrivateSecretSharedQuery(chalSt.keyDB, shares[n], nprocs)},
                      audit \in {GenerateAuditForSharedQuery(chalSt.keyDB, shares[n],
                                                             tokens[n], nprocs)} :
                      chalSt' = [chalSt EXCEPT
                          !.phase = "challenged", !.kind = "shared",
                          !.groupSize = groupSize, !.queried = TRUE,
                          !.shapeOk = Len(res.Shares) = 1,
                          !.err = audit.err, !.panic = FALSE,
                          !.token = IF audit.err THEN <<>> ELSE audit.T]
    /\ UNCHANGED <<dpfSt, slotSt, sharedSt, aheSt, aspirSt, auditSt, runSt, memSt, kwSt, proofSt, qSt, gridSt, rowsSt, bstSt>>

ChalNext ==
    \/ ChalAuthChalForQuery
    \/ ChalAuthChalForQueryTwo
    \/ ChalGenerateAuditForSharedQuery

SpecChal == ChalInit /\ [][ChalNext]_vars

\* C23: result-shape check in the challenge: whenever the key-database query
\* result is not exactly one slot (for the AHE variants: of exactly one
\* ciphertext), AuthChalForQuery and GenerateAuditForSharedQuery return the
\* invalid-result-shape error and no token
C23_ResultShapeCheck ==
    (chalSt.phase = "challenged" /\ chalSt.queried /\ ~chalSt.shapeOk) =>
        /\ chalSt.err /\ ~chalSt.panic
        /\ chalSt.token = <<>>


(***************************************************************************)
(* Data races of the two query loops: two goroutines that are both running *)
(* and whose next accesses go to one variable, one of them writing.        *)
(***************************************************************************)
\* the next step of evaluation goroutine n calls prf, which writes f.Temp and f.Out
PSSQWritesOut(n) ==
    /\ runSt.gor[n].pc = "prf"
    /\ runSt.gor[n].blk < P2Of(runSt.query.Key.NumParties)

\* the next step of evaluation goroutine n reads f.Out
PSSQReadsOut(n) == runSt.gor[n].pc = "fold"

\* two goroutines of PrivateSecretSharedQuery race for the DPF object's buffers
PSSQRace ==
    /\ runSt.phase = "loop" /\ ~runSt.query.IsTwoParty
    /\ \E n, m \in 1..runSt.dimHeight :
          n # m /\ PSSQWritesOut(n) /\ (PSSQWritesOut(m) \/ PSSQReadsOut(m))

\* the next step of worker n writes numBytesPerCiphertext
PEQWritesWidth(n) == runSt.w[n].pc = "add" /\ runSt.w[n].sawZero

\* the next step of worker n reads numBytesPerCiphertext
PEQReadsWidth(n) == runSt.w[n].pc = "convert"

\* two workers of PrivateEncryptedQuery race for numBytesPerCiphertext
PEQRace ==
    /\ runSt.phase = "workers"
    /\ \E n, m \in 1..runSt.nprocs :
          n # m /\ PEQWritesWidth(n) /\ (PEQWritesWidth(m) \/ PEQReadsWidth(m))

\* C24: race freedom inside a query: in no reachable interleaving of
\* PrivateSecretSharedQuery or PrivateEncryptedQuery do two running worker
\* goroutines access one variable or buffer, one of the accesses a write
\* (result buffers, the chunk width of the encrypted query, the PRF buffers
\* of the DPF object)
C24_RaceFreedom == ~PSSQRace /\ ~PEQRace


(***************************************************************************)
(* SpecRows: the row ranges of the worker goroutines of one query, for any *)
(* number of rows and of workers.  Every worker computes start and end     *)
(* from its own number; the workers start in any order.                    *)
(***************************************************************************)
RowsInit ==
    /\ \E height \in 0..MaxHeight, nprocs \in 1..MaxWorkers :
          rowsSt = [phase |-> "workers", height |-> height, nprocs |-> nprocs,
                    started |-> {}, ranges |-> AsSeq([n \in 1..nprocs |-> <<0, 0>>])]
    /\ dpfSt = Idle /\ slotSt = Idle /\ sharedSt = Idle /\ aheSt = Idle /\ aspirSt = Idle /\ auditSt = Idle /\ runSt = Idle /\ memSt = Idle /\ kwSt = Idle /\ proofSt = Idle /\ qSt = Idle /\ gridSt = Idle /\ chalSt = Idle /\ bstSt = Idle

\* go func(i): start := i * numRowsPerProc; end := ...; if i+1 == nprocs { end = dimHeight }
RowsWorker ==
    /\ rowsSt.phase = "workers"
    /\ \E i \in 0..(rowsSt.nprocs - 1) :
          /\ i \notin rowsSt.started
          /\ rowsSt' = [rowsSt EXCEPT
                          !.started = @ \cup {i},
                          !.ranges[i + 1] = WorkerRows(i, rowsSt.nprocs, rowsSt.height)]
    /\ UNCHANGED <<dpfSt, slotSt, sharedSt, aheSt, aspirSt, auditSt, runSt, memSt, kwSt, proofSt, qSt, gridSt, chalSt, bstSt>>

\* wg.Wait() returns
RowsWait ==
    /\ rowsSt.phase = "workers"
    /\ rowsSt.started = 0..(rowsSt.nprocs - 1)
    /\ rowsSt' = [rowsSt EXCEPT !.phase = "joined"]
    /\ UNCHANGED <<dpfSt, slotSt, sharedSt, aheSt, aspirSt, auditSt, runSt, memSt, kwSt, proofSt, qSt, gridSt, chalSt, bstSt>>

RowsNext ==
    \/ RowsWorker
    \/ RowsWait

SpecRows == RowsInit /\ [][RowsNext]_vars

\* the rows of the range <<start, end>>
RowsOf(range) == range[1]..(range[2] - 1)

\* C25: worker row partition: for every height >= 0 and nprocs >= 1 the row
\* ranges [start, end) of the nprocs workers are pairwise disjoint and their
\* union is exactly [0, height): every row is accumulated by exactly one worker
C25_RowPartition ==
    rowsSt.phase = "joined" =>
        /\ \A n, m \in 1..rowsSt.nprocs :
              n # m => RowsOf(rowsSt.ranges[n]) \cap RowsOf(rowsSt.ranges[m]) = {}
        /\ UNION {RowsOf(rowsSt.ranges[n]) : n \in 1..rowsSt.nprocs}
              = 0..(rowsSt.height - 1)
        /\ \A n \in 1..rowsSt.nprocs :
              0 <= rowsSt.ranges[n][1] /\ rowsSt.ranges[n][2] <= rowsSt.height

\* C25 witness: three workers for two rows; the last worker takes both
C25_Witness ==
    /\ rowsSt.phase = "joined"
    /\ rowsSt.height = 2 /\ rowsSt.nprocs = 3
    /\ rowsSt.ranges = <<(<<0, 0>>), (<<0, 0>>), (<<0, 2>>)>>


(***************************************************************************)
(* SpecPSSQLoop: the main loop of PrivateSecretSharedQuery as in SpecPSSQ, *)
(* for the first share of the queries of one random stream on one          *)
(* database per size: the loop's control does not read the key material.   *)
(***************************************************************************)
PSSQLoopInit == PSSQCalls({0}, {0}, {1})

SpecPSSQLoop == PSSQLoopInit /\ [][PSSQNext]_vars

\* the evaluation goroutines started and not yet finished
PSSQLive == {n \in 1..runSt.dimHeight : runSt.gor[n].pc \notin {"none", "done"}}

\* C26: bounded live set: for nprocs >= 2, at no point of
\* PrivateSecretSharedQuery are more than nprocs evaluation goroutines started
\* and not finished, and every selection bit has been written by its
\* goroutine before the row scan reads any selection bit
C26_BoundedLiveSet ==
    /\ (runSt.phase = "loop" /\ runSt.nprocs >= 2) =>
          Cardinality(PSSQLive) <= runSt.nprocs
    /\ (runSt.phase = "returned" /\ runSt.nprocs >= 2) =>
          \A n \in 1..runSt.dimHeight : runSt.gor[n].pc = "done"

\* C26 witness: two workers, four rows: the goroutines of rows 1 and 2 are both
\* running while row 0 is done and row 3 has not been started
C26_Witness ==
    /\ runSt.phase = "loop" /\ runSt.nprocs = 2 /\ runSt.dimHeight = 4
    /\ PSSQLive = {2, 3}
    /\ runSt.gor[1].pc = "done" /\ runSt.gor[4].pc = "none"


(***************************************************************************)
(* The index domain of share queries under SpecShared.                     *)
(***************************************************************************)
\* the slot positions of the database that lie in group index
SlotsOfGroup(db, index, groupSize) ==
    {s \in 0..(db.DBSize - 1) : s \div groupSize = index}

\* C27: index domain of share queries: for DBSize >= 1 and groupSize in
\* [1, DBSize] the height of client and server is ceil(DBSize / groupSize), so
\* for every slot position s the index query floor(s / groupSize) is accepted
\* and the recovered group contains db.Slots[s], also when groupSize does not
\* divide DBSize
C27_IndexDomain ==
    (/\ sharedSt.phase # "db"
     /\ sharedSt.groupSize \in 1..sharedSt.db.DBSize
     /\ SlotsOfGroup(sharedSt.db, sharedSt.index, sharedSt.groupSize) # {}) =>
        /\ DimHeightOf(sharedSt.db.DBSize, sharedSt.groupSize)
              = CeilDiv(sharedSt.db.DBSize, sharedSt.groupSize)
        /\ sharedSt.phase # "panicked"
        /\ (sharedSt.phase = "recovered" /\ sharedSt.numShares = 2) =>
              \A s \in SlotsOfGroup(sharedSt.db, sharedSt.index, sharedSt.groupSize) :
                  \E j \in 1..Len(sharedSt.recovered) :
                      sharedSt.recovered[j] = sharedSt.db.Slots[s + 1]


(***************************************************************************)
(* SpecSqrtST: PrivateSqrtST.BuildForData on sorted data of any length.    *)
(***************************************************************************)
SqrtSTInit ==
    /\ \E n \in 1..MaxKeys :
          \E data \in [1..n -> KeyStrings] :
             /\ Sorted(data)
             /\ kwSt = [phase |-> "data", data |-> AsSeq(data), sqst |-> <<>>,
                        i |-> 0, answer |-> <<>>]
    /\ dpfSt = Idle /\ slotSt = Idle /\ sharedSt = Idle /\ aheSt = Idle /\ aspirSt = Idle /\ auditSt = Idle /\ runSt = Idle /\ memSt = Idle /\ proofSt = Idle /\ qSt = Idle /\ gridSt = Idle /\ chalSt = Idle /\ rowsSt = Idle /\ bstSt = Idle

SqrtSTNext == KwBuildForData

SpecSqrtST == SqrtSTInit /\ [][SqrtSTNext]_vars

\* C28: sqrt search tree shape: after BuildForData on sorted input of any
\* length n >= 1 the stored (padded) key count is a perfect square with
\* NumKeys = Width * Height = sigma^2, and FirstLayer has exactly
\* sigma = ceil(sqrt(NumKeys)) boundaries
C28_SqrtTreeShape ==
    kwSt.phase = "built" =>
        /\ ~kwSt.sqst.err
        /\ kwSt.sqst.NumKeys = kwSt.sqst.SecondLayer.DBSize
        /\ ~NoIntegerSqrt(kwSt.sqst.NumKeys)
        /\ kwSt.sqst.NumKeys = kwSt.sqst.Width * kwSt.sqst.Height
        /\ kwSt.sqst.Width = kwSt.sqst.Height
        /\ Len(kwSt.sqst.FirstLayer) = CeilSqrtFrom(kwSt.sqst.NumKeys, 0)


(***************************************************************************)
(* SpecBST: buildBST on data padded to a power-of-two length.              *)
(***************************************************************************)
MaxBSTKeys == 8

\* the strings of the data: one sorts before the padding "x", one after it
BSTStrings == {<<1>>, <<121>>}

RECURSIVE Log2CeilFrom(_, _), InsertString(_, _), SortStrings(_)
RECURSIVE BSTInner(_, _, _, _, _, _, _), BSTOuter(_, _, _, _, _)

\* int(math.Ceil(math.Log2(float64(n)))): the least d with 2^d >= n
Log2CeilFrom(n, d) == IF Pow2(d) >= n THEN d ELSE Log2CeilFrom(n, d + 1)

\* sort.Strings: s inserted into the sorted sequence at its place
InsertString(s, sorted) ==
    IF sorted = <<>> THEN <<s>>
    ELSE IF BytesCompare(s, Head(sorted)) <= 0 THEN <<s>> \o sorted
    ELSE <<Head(sorted)>> \o InsertString(s, Tail(sorted))

SortStrings(data) ==
    IF data = <<>> THEN <<>>
    ELSE InsertString(Head(data), SortStrings(Tail(data)))

\* num := int(math.Pow(2, float64(layerIndex))) + numProcessed
BSTNumLayerOnly(layerIndex, numProcessed) == Pow2(layerIndex)
BSTNum(layerIndex, numProcessed) == Pow2(layerIndex) + numProcessed

\* the inner loop of buildBST over j: every step-th element is a boundary of
\* the layer, and a node of the layer when no earlier layer holds it; positions
\* keeps the index of each node; an index past the data panics
BSTInner(data, step, num, j, nextIndex, layerIndex, acc) ==
    IF j >= num \/ acc.panic THEN acc
    ELSE IF nextIndex >= Len(data) THEN [acc EXCEPT !.panic = TRUE]
    ELSE
        LET elem == data[nextIndex + 1]
            withB == [acc EXCEPT !.boundries[layerIndex + 1] = Append(@, elem)]
            withL == IF nextIndex \in acc.allBoundries THEN withB
                     ELSE [withB EXCEPT
                             !.layers[layerIndex + 1] = Append(@, elem),
                             !.positions[layerIndex + 1] = Append(@, nextIndex),
                             !.allBoundries = @ \cup {nextIndex},
                             !.numProcessed = @ + 1]
        IN  BSTInner(data, step, num, j + 1, nextIndex + step, layerIndex, withL)

\* the outer loop of buildBST: one layer per level, the step halved each time
BSTOuter(data, depth, layerIndex, step, acc) ==
    IF layerIndex >= depth \/ acc.panic THEN acc
    ELSE The({BSTOuter(data, depth, layerIndex + 1, step \div 2, done) :
                 done \in {BSTInner(data, step,
                                    BSTNum(layerIndex, acc.numProcessed),
                                    0, step, layerIndex, acc)}})

buildBST(data, depth) ==
    The({BSTOuter(sorted, depth, 0, Len(sorted) \div 2,
                  [layers |-> [i \in 1..depth |-> <<>>],
                   boundries |-> [i \in 1..depth |-> <<>>],
                   positions |-> [i \in 1..depth |-> <<>>],
                   allBoundries |-> {}, numProcessed |-> 0, panic |-> FALSE,
                   data |-> sorted]) : sorted \in {SortStrings(data)}})

BSTInit ==
    /\ \E n \in 1..MaxBSTKeys :
          \E data \in [1..n -> BSTStrings] :
             bstSt = [phase |-> "raw", data |-> AsSeq(data), depth |-> 0,
                      bst |-> <<>>]
    /\ dpfSt = Idle /\ slotSt = Idle /\ sharedSt = Idle /\ aheSt = Idle /\ aspirSt = Idle /\ auditSt = Idle /\ runSt = Idle /\ memSt = Idle /\ kwSt = Idle /\ proofSt = Idle /\ qSt = Idle /\ gridSt = Idle /\ chalSt = Idle /\ rowsSt = Idle

\* data = PadToPowerOf2(data)
BSTPad ==
    /\ bstSt.phase = "raw"
    /\ bstSt' = [bstSt EXCEPT !.phase = "padded",
                              !.data = PadToPowerOf2(bstSt.data)]
    /\ UNCHANGED <<dpfSt, slotSt, sharedSt, aheSt, aspirSt, auditSt, runSt, memSt, kwSt, proofSt, qSt, gridSt, chalSt, rowsSt>>

\* buildBST(data, int(math.Ceil(math.Log2(float64(len(data))))))
BSTBuild ==
    /\ bstSt.phase = "padded"
    /\ \E depth \in {Log2CeilFrom(Len(bstSt.data), 0)} :
          \E bst \in {buildBST(bstSt.data, depth)} :
             bstSt' = [bstSt EXCEPT !.phase = "built", !.depth = depth,
                                    !.bst = bst]
    /\ UNCHANGED <<dpfSt, slotSt, sharedSt, aheSt, aspirSt, auditSt, runSt, memSt, kwSt, proofSt, qSt, gridSt, chalSt, rowsSt>>

BSTNext == BSTPad \/ BSTBuild

SpecBST == BSTInit /\ [][BSTNext]_vars

\* how often position p is a node of the layers
BSTOccurrences(bst, p) ==
    Cardinality({lk \in (1..Len(bst.positions)) \X (1..Len(bst.data)) :
                    /\ lk[2] <= Len(bst.positions[lk[1]])
                    /\ bst.positions[lk[1]][lk[2]] = p})

\* C29: binary search tree layers: for data padded to a power-of-two length
\* N = 2^d, buildBST(data, d) returns d layers, layer 0 has exactly 1 node,
\* layer i has exactly 2^i nodes for 1 <= i < d, every layer is in
\* non-decreasing order, and the layers together hold each of the sorted
\* positions 1..N-1 exactly once
C29_BSTLayers ==
    (bstSt.phase = "built" /\ Len(bstSt.data) = Pow2(bstSt.depth)) =>
        /\ ~bstSt.bst.panic
        /\ Len(bstSt.bst.layers) = bstSt.depth
        /\ bstSt.depth >= 1 => Len(bstSt.bst.layers[1]) = 1
        /\ \A i \in 1..(bstSt.depth - 1) :
              Len(bstSt.bst.layers[i + 1]) = Pow2(i)
        /\ \A l \in 1..bstSt.depth :
              /\ \A k \in 1..(Len(bstSt.bst.layers[l]) - 1) :
                    BytesCompare(bstSt.bst.layers[l][k],
                                 bstSt.bst.layers[l][k + 1]) <= 0
              /\ \A k \in 1..Len(bstSt.bst.layers[l]) :
                    bstSt.bst.layers[l][k]
                       = bstSt.bst.data[bstSt.bst.positions[l][k] + 1]
        /\ \A p \in 1..(Len(bstSt.data) - 1) :
              BSTOccurrences(bstSt.bst, p) = 1
        /\ BSTOccurrences(bstSt.bst, 0) = 0

\* C29 witness: eight strings, the padding sorted between them, built into
\* three layers of 1, 2 and 4 nodes at positions 4; 2, 6; 1, 3, 5, 7
C29_Witness ==
    /\ bstSt.phase = "built" /\ bstSt.depth = 3
    /\ bstSt.bst.data = <<<<1>>, <<1>>, <<1>>, <<120>>, <<120>>, <<120>>, <<121>>, <<121>>>>
    /\ bstSt.bst.positions = <<<<4>>, <<2, 6>>, <<1, 3, 5, 7>>>>
    /\ bstSt.bst.layers[2] = <<<<1>>, <<121>>>>


(***************************************************************************)
(* SpecQueryCalls: the calls of PrivateSecretSharedQuery and of            *)
(* PrivateEncryptedQuery under a scheduler that lets some goroutine that   *)
(* can run take its next step, on databases with and without slots.        *)
(***************************************************************************)
\* NewDatabase(): &Database{}
NewDatabase == [DBSize |-> 0, SlotBytes |-> 0, Slots |-> <<>>]

\* the databases without slots
EmptyDBs == {NewDatabase, GenerateRandomDB(0, 0, 2)}

\* PrivateSecretSharedQuery on a database without slots: dimHeight is 0, the
\* conversion of math.Log2(0) + 1 to uint is implementation-dependent, and the
\* main loop has no row to evaluate
PSSQEmptyInit ==
    /\ \E db \in EmptyDBs, groupSize \in 1..2, numShares \in PSSQParties,
          nprocs \in 1..MaxProcs, numBits \in 0..1 :
          \E q \in {newQueryShares(GenerateRandomDB(0, groupSize, 2), 0, groupSize,
                                   numShares, 0)} :
             runSt = [phase |-> "loop", db |-> db, query |-> q.shares[1],
                      nprocs |-> nprocs,
                      dimHeight |-> DimHeightOf(db.DBSize, groupSize),
                      numBits |-> numBits, i |-> 0, waiting |-> FALSE,
                      bits |-> <<>>, gor |-> <<>>, Out |-> <<>>, result |-> <<>>]
    /\ dpfSt = Idle /\ slotSt = Idle /\ sharedSt = Idle /\ aheSt = Idle /\ aspirSt = Idle /\ auditSt = Idle /\ memSt = Idle /\ kwSt = Idle /\ proofSt = Idle /\ qSt = Idle /\ gridSt = Idle /\ chalSt = Idle /\ rowsSt = Idle /\ bstSt = Idle

\* PrivateEncryptedQuery on a database without slots, the query carrying the
\* width and height its sender chose
PEQEmptyInit ==
    /\ \E db \in EmptyDBs, nprocs \in 1..MaxProcs, width \in 0..2, height \in 0..2 :
          runSt = [phase |-> "workers", db |-> db,
                   query |-> NewEncryptedQueryWithDimentions(Pk, width, height, 1, 0, 0),
                   nprocs |-> nprocs,
                   numCts |-> NumCiphertextsPerSlot(db, Pk),
                   numBytesPerCiphertext |-> 0, i |-> 0,
                   w |-> AsSeq([n \in 1..nprocs |->
                             [pc |-> "none", row |-> 0, col |-> 0, end |-> 0,
                              sawZero |-> FALSE, slots |-> <<>>]]),
                   result |-> <<>>]
    /\ dpfSt = Idle /\ slotSt = Idle /\ sharedSt = Idle /\ aheSt = Idle /\ aspirSt = Idle /\ auditSt = Idle /\ memSt = Idle /\ kwSt = Idle /\ proofSt = Idle /\ qSt = Idle /\ gridSt = Idle /\ chalSt = Idle /\ rowsSt = Idle /\ bstSt = Idle

QueryCallsInit == PSSQLoopInit \/ PSSQEmptyInit \/ PEQInit \/ PEQEmptyInit

QueryCallsNext == PSSQNext \/ PEQNext

SpecQueryCalls ==
    QueryCallsInit /\ [][QueryCallsNext]_vars /\ WF_vars(QueryCallsNext)

\* the call has returned, every goroutine it started is done and it waits on
\* no barrier
QueryReturned ==
    /\ runSt.phase = "returned"
    /\ "gor" \in DOMAIN runSt =>
          /\ ~runSt.waiting
          /\ \A n \in 1..runSt.dimHeight : runSt.gor[n].pc \in {"none", "done"}
          /\ runSt.nprocs # 1 => \A n \in 1..runSt.dimHeight : runSt.gor[n].pc = "done"
    /\ "w" \in DOMAIN runSt =>
          \A n \in 1..runSt.nprocs : runSt.w[n].pc = "done"

====
